---- MODULE Spec2Model ----
(***************************************************************************)
(* The CarbonTracker contract (Solidity, embedded in                       *)
(* src/app/methane/client/src/services/contract-functions.ts, lines        *)
(* 126-1177) as a state machine.  Every public function is one action; a   *)
(* call that reverts is no step at all (the EVM discards every effect of   *)
(* a reverted transaction), so an action's guard is the conjunction of the *)
(* function's modifiers and require statements, loops included.            *)
(*                                                                         *)
(* Left out of the state: createdBy, dateCreated, dateUpdated, metadata,   *)
(* description of a tracker and name, unit, unitAmount of a product.  The  *)
(* contract writes them and never reads them in a guard or a computation.  *)
(* SafeMath add and mul revert at 2^256, far beyond the amounts explored.  *)
(***************************************************************************)
EXTENDS Integers, Sequences, FiniteSets, TLC

\* ------------------------------------------------------------------ bounds
MaxTrackers == 2
MaxProducts == 2
MaxBalance == 3
MaxLocked == 3
Supply == 2
\* the amounts of the specification with the spec's worked examples
ExampleSupply == 160
ExampleMaxBalance == 60
\* the largest balance explored by the specification of the transfers
TransferMaxBalance == 50

\* -------------------------------------------------------------- addresses
Zero == "0x0"
netAddress == "net"
Auditor == "aud"
Industry == "ind"
Admin == "adm"
Accounts == {netAddress, Auditor, Industry, Admin}
Addresses == Accounts \cup {Zero}

TrackerIds == 0..MaxTrackers
ProductIds == 0..MaxProducts
Tokens == {1, 2, 3, 4}

decimalsEf == 1000000

\* ------------------------------------- the emissions token network (NET)
\* net.isAuditor(a): a holds NET's registered-emissions-auditor role.
netIsAuditor(a) == a = Auditor
\* net.isIndustry(a)
netIsIndustry(a) == a = Industry
\* net.getTokenTypeId(tokenId): 4 emissions (tokens 1 and 4), 2 offset
\* (token 2), 1 renewable energy certificate (token 3).
getTokenTypeId(tokenId) ==
    CASE tokenId \in {1, 4} -> 4 [] tokenId = 2 -> 2 [] OTHER -> 1

VARIABLES
    numOfUniqueTrackers,  \* Counters.Counter _numOfUniqueTrackers
    numOfProducts,        \* Counters.Counter _numOfProducts
    trackerData,          \* _trackerData: id -> CarbonTrackerDetails
    trackerMappings,      \* _trackerMappings: id -> CarbonTrackerMappings
    productData,          \* _productData: id -> ProductDetails
    owners,               \* ERC721 _owners: id -> address (Zero: not minted)
    lockedAmount,         \* tokenId -> amount locked into the contract
    productBalance,       \* productId -> address -> amount
    isAuditorApproved,    \* auditor -> trackee -> bool
    approvedAuditorsOnly, \* trackee -> bool
    registeredTracker,    \* holders of REGISTERED_TRACKER
    netAvailable,         \* net.getAvailableAndRetired(this, tokenId).available
    everAudited           \* history: the ids on which an audit has succeeded

vars == <<numOfUniqueTrackers, numOfProducts, trackerData, trackerMappings,
          productData, owners, lockedAmount, productBalance, isAuditorApproved,
          approvedAuditorsOnly, registeredTracker, netAvailable, everAudited>>

\* All of the contract's storage.
storage == <<numOfUniqueTrackers, numOfProducts, trackerData, trackerMappings,
             productData, owners, lockedAmount, productBalance,
             isAuditorApproved, approvedAuditorsOnly, registeredTracker>>

\* ------------------------------------------------------- zero-valued storage
NoProductsTracked == [productIds |-> <<>>,
                      productIndex |-> [p \in ProductIds |-> 0],
                      amount |-> [p \in ProductIds |-> 0]]

NoTrackerMappings == [tokenIds |-> <<>>,
                      idIndex |-> [k \in Tokens |-> 0],
                      amount |-> [k \in Tokens |-> 0],
                      productIds |-> <<>>,
                      productIdIndex |-> [p \in ProductIds |-> 0],
                      trackerIds |-> <<>>,
                      trackerIndex |-> [s \in TrackerIds |-> 0],
                      productsTracked |-> [s \in TrackerIds |-> NoProductsTracked]]

NoTrackerDetails == [trackerId |-> 0, trackee |-> Zero, auditor |-> Zero,
                     totalProductAmounts |-> 0, fromDate |-> 0, thruDate |-> 0]

NoProductDetails == [trackerId |-> 0, auditor |-> Zero, amount |-> 0, available |-> 0]

\* ------------------------------------------------------------- modifiers
\* Variant of notAudited: the modifier left off the functions that carry it.
notAudited_leftOff(trackerId) == trackerData[trackerId].auditor \in Addresses

\* modifier notAudited
notAudited(trackerId) == trackerData[trackerId].auditor = Zero

\* Variant of __isAuditor: the network's auditor role is not asked for.
isAuditorFor_anyCaller(sender, trackee) ==
    approvedAuditorsOnly[trackee] => isAuditorApproved[sender][trackee]

\* function __isAuditor(_trackee), evaluated for msg.sender = sender
isAuditorFor(sender, trackee) ==
    /\ (netIsAuditor(sender) \/ sender = netAddress)
    /\ \/ (approvedAuditorsOnly[trackee] /\ isAuditorApproved[sender][trackee])
       \/ ~approvedAuditorsOnly[trackee]

\* Variant of _isAudited: the require is left out.
isAudited_notRequired(trackerId) == trackerData[trackerId].auditor \in Addresses

\* function _isAudited
isAudited(trackerId) == trackerData[trackerId].auditor # Zero

\* function _trackerExists
trackerExists(trackerId) == numOfUniqueTrackers >= trackerId

\* ERC721 _exists: ownerOf reverts for an id that was never minted
minted(trackerId) == owners[trackerId] # Zero

\* function _isAuditorOrOwner(trackerId, _address): __isAuditor is handed the
\* caller's own address as the trackee; ownerOf is reached only when it is false.
isAuditorOrOwner(trackerId, sender) ==
    \/ isAuditorFor(sender, sender)
    \/ (minted(trackerId) /\ owners[trackerId] = sender)

\* Variant of trackeeIsIndustry: the role of the trackee is not asked for.
trackeeIsIndustry_anyone(trackee) == trackee \in Addresses

\* modifier trackeeIsIndustry, on the trackee recorded for the tracker
trackeeIsIndustry(trackee) == netIsIndustry(trackee)

\* ------------------------------------------------------- token bookkeeping
\* Variant of _addTokenAmounts: the index stored is the array's length before
\* the push.
addTokenAmounts_zeroBased(tm, tokenId, amountAdd, index, tokenTypeId) ==
    LET under == tokenTypeId = 2 /\ tm.amount[tokenId] < amountAdd
        amt == CASE tokenTypeId = 4 -> tm.amount[tokenId] + amountAdd
                 [] tokenTypeId = 2 /\ ~under -> tm.amount[tokenId] - amountAdd
                 [] OTHER -> tm.amount[tokenId]
        tm1 == [tm EXCEPT !.amount[tokenId] = amt]
    IN  IF under THEN [ok |-> FALSE, tm |-> tm]
        ELSE IF amt > 0 /\ index = 0
             THEN [ok |-> TRUE,
                   tm |-> [tm1 EXCEPT !.tokenIds = Append(@, tokenId),
                                      !.idIndex[tokenId] = Len(tm1.tokenIds)]]
             ELSE [ok |-> TRUE, tm |-> tm1]

\* Variant of _addTokenAmounts: a token not yet indexed is pushed whatever its
\* resulting amount.
addTokenAmounts_zeroListed(tm, tokenId, amountAdd, index, tokenTypeId) ==
    LET under == tokenTypeId = 2 /\ tm.amount[tokenId] < amountAdd
        amt == CASE tokenTypeId = 4 -> tm.amount[tokenId] + amountAdd
                 [] tokenTypeId = 2 /\ ~under -> tm.amount[tokenId] - amountAdd
                 [] OTHER -> tm.amount[tokenId]
        tm1 == [tm EXCEPT !.amount[tokenId] = amt]
    IN  IF under THEN [ok |-> FALSE, tm |-> tm]
        ELSE IF index = 0
             THEN [ok |-> TRUE,
                   tm |-> [tm1 EXCEPT !.tokenIds = Append(@, tokenId),
                                      !.idIndex[tokenId] = Len(tm1.tokenIds) + 1]]
             ELSE [ok |-> TRUE, tm |-> tm1]

\* function _addTokenAmounts: [ok, tm]; a SafeMath sub below zero reverts.
addTokenAmounts(tm, tokenId, amountAdd, index, tokenTypeId) ==
    LET under == tokenTypeId = 2 /\ tm.amount[tokenId] < amountAdd
        amt == CASE tokenTypeId = 4 -> tm.amount[tokenId] + amountAdd
                 [] tokenTypeId = 2 /\ ~under -> tm.amount[tokenId] - amountAdd
                 [] OTHER -> tm.amount[tokenId]
        tm1 == [tm EXCEPT !.amount[tokenId] = amt]
    IN  IF under THEN [ok |-> FALSE, tm |-> tm]
        ELSE IF amt > 0 /\ index = 0
             THEN [ok |-> TRUE,
                   tm |-> [tm1 EXCEPT !.tokenIds = Append(@, tokenId),
                                      !.idIndex[tokenId] = Len(tm1.tokenIds) + 1]]
             ELSE [ok |-> TRUE, tm |-> tm1]

\* Variant of the availability check: what is already locked is not counted.
enoughAvailable_ignoringLocked(sender, avail, locked, amount) ==
    sender = netAddress \/ avail >= amount

\* The availability check of _trackTokens (lines 562-566): SafeMath sub
\* reverts when more is locked than available.
enoughAvailable(sender, avail, locked, amount) ==
    \/ sender = netAddress
    \/ (avail >= locked /\ avail - locked >= amount)

\* Variant of the lock: the amount is written over what was locked.
addLocked_overwriting(locked, tokenId, amount) == [locked EXCEPT ![tokenId] = amount]

\* lockedAmount[tokenId] = lockedAmount[tokenId].add(amount) (lines 567-569)
addLocked(locked, tokenId, amount) == [locked EXCEPT ![tokenId] = @ + amount]

\* Variant of the loop of _trackTokens: an entry that fails the availability
\* check ends the loop and the entries before it are kept.
RECURSIVE trackTokensLoop_keepingPartial(_, _, _, _, _)
trackTokensLoop_keepingPartial(sender, tokenIds, tokenAmounts, i, acc) ==
    IF ~acc.ok \/ i > Len(tokenIds) THEN acc
    ELSE LET tokenId == tokenIds[i]
             amount == tokenAmounts[i]
             avail == netAvailable[tokenId]
             enough == enoughAvailable(sender, avail, acc.locked[tokenId], amount)
             r == addTokenAmounts(acc.tm, tokenId, amount,
                                  acc.tm.idIndex[tokenId], getTokenTypeId(tokenId))
         IN  IF ~enough THEN acc
             ELSE trackTokensLoop_keepingPartial(sender, tokenIds, tokenAmounts, i + 1,
                     [ok |-> r.ok,
                      locked |-> addLocked(acc.locked, tokenId, amount),
                      tm |-> r.tm])

\* One pass of the loop of _trackTokens (lines 557-579) from entry i on.
\* acc = [ok, locked, tm]: the call has not reverted, lockedAmount, the
\* tracker's mappings.
RECURSIVE trackTokensLoop(_, _, _, _, _)
trackTokensLoop(sender, tokenIds, tokenAmounts, i, acc) ==
    IF ~acc.ok \/ i > Len(tokenIds) THEN acc
    ELSE LET tokenId == tokenIds[i]
             amount == tokenAmounts[i]
             avail == netAvailable[tokenId]
             enough == enoughAvailable(sender, avail, acc.locked[tokenId], amount)
             r == addTokenAmounts(acc.tm, tokenId, amount,
                                  acc.tm.idIndex[tokenId], getTokenTypeId(tokenId))
         IN  IF ~enough THEN [acc EXCEPT !.ok = FALSE]
             ELSE trackTokensLoop(sender, tokenIds, tokenAmounts, i + 1,
                     [ok |-> r.ok,
                      locked |-> addLocked(acc.locked, tokenId, amount),
                      tm |-> r.tm])

\* function _trackTokens on a tracker whose recorded trackee is `trackee` and
\* whose mappings are tm: [ok, locked, tm].
trackTokens(sender, trackee, tm, tokenIds, tokenAmounts) ==
    IF /\ trackeeIsIndustry(trackee)
       /\ isAuditorFor(sender, trackee)
       /\ Len(tokenAmounts) = Len(tokenIds)
    THEN trackTokensLoop(sender, tokenIds, tokenAmounts, 1,
                         [ok |-> TRUE, locked |-> lockedAmount, tm |-> tm])
    ELSE [ok |-> FALSE, locked |-> lockedAmount, tm |-> tm]

\* The date fields as track and trackUpdate set them: a zero leaves the field.
withDates(d, fromDate, thruDate) ==
    [d EXCEPT !.fromDate = IF fromDate > 0 THEN fromDate ELSE @,
              !.thruDate = IF thruDate > 0 THEN thruDate ELSE @]

\* ---------------------------------------------------------------- actions
\* Variant of track: the tracker token is minted to the caller.
track_mintedToSender(sender, issuedTo, trackee, tokenIds, tokenAmounts, fromDate, thruDate) ==
    LET trackerId == numOfUniqueTrackers + 1
        r == IF Len(tokenIds) > 0
             THEN trackTokens(sender, trackee, trackerMappings[trackerId],
                              tokenIds, tokenAmounts)
             ELSE [ok |-> TRUE, locked |-> lockedAmount,
                   tm |-> trackerMappings[trackerId]]
    IN  /\ issuedTo # Zero
        /\ ~minted(trackerId)
        /\ r.ok
        /\ numOfUniqueTrackers' = trackerId
        /\ owners' = [owners EXCEPT ![trackerId] = sender]
        /\ trackerData' = [trackerData EXCEPT ![trackerId] =
               withDates([@ EXCEPT !.trackerId = trackerId, !.trackee = trackee],
                         fromDate, thruDate)]
        /\ lockedAmount' = r.locked
        /\ trackerMappings' = [trackerMappings EXCEPT ![trackerId] = r.tm]
        /\ UNCHANGED <<numOfProducts, productData, productBalance,
                       isAuditorApproved, approvedAuditorsOnly,
                       registeredTracker, netAvailable, everAudited>>

\* function track (with _track and ERC721 _mint)
track(sender, issuedTo, trackee, tokenIds, tokenAmounts, fromDate, thruDate) ==
    LET trackerId == numOfUniqueTrackers + 1
        r == IF Len(tokenIds) > 0
             THEN trackTokens(sender, trackee, trackerMappings[trackerId],
                              tokenIds, tokenAmounts)
             ELSE [ok |-> TRUE, locked |-> lockedAmount,
                   tm |-> trackerMappings[trackerId]]
    IN  /\ issuedTo # Zero
        /\ ~minted(trackerId)
        /\ r.ok
        /\ numOfUniqueTrackers' = trackerId
        /\ owners' = [owners EXCEPT ![trackerId] = issuedTo]
        /\ trackerData' = [trackerData EXCEPT ![trackerId] =
               withDates([@ EXCEPT !.trackerId = trackerId, !.trackee = trackee],
                         fromDate, thruDate)]
        /\ lockedAmount' = r.locked
        /\ trackerMappings' = [trackerMappings EXCEPT ![trackerId] = r.tm]
        /\ UNCHANGED <<numOfProducts, productData, productBalance,
                       isAuditorApproved, approvedAuditorsOnly,
                       registeredTracker, netAvailable, everAudited>>

\* function trackUpdate
trackUpdate(sender, trackerId, tokenIds, tokenAmounts, fromDate, thruDate) ==
    LET r == trackTokens(sender, trackerData[trackerId].trackee,
                         trackerMappings[trackerId], tokenIds, tokenAmounts)
    IN  /\ notAudited(trackerId)
        /\ trackerExists(trackerId)
        /\ r.ok
        /\ trackerData' = [trackerData EXCEPT ![trackerId] =
                               withDates(@, fromDate, thruDate)]
        /\ lockedAmount' = r.locked
        /\ trackerMappings' = [trackerMappings EXCEPT ![trackerId] = r.tm]
        /\ UNCHANGED <<numOfUniqueTrackers, numOfProducts, productData, owners,
                       productBalance, isAuditorApproved, approvedAuditorsOnly,
                       registeredTracker, netAvailable, everAudited>>

\* Variant of audit: the notAudited modifier is left off.
audit_overwriting(sender, trackerId) ==
    /\ isAuditorFor(sender, trackerData[trackerId].trackee)
    /\ trackerData' = [trackerData EXCEPT ![trackerId].auditor = sender]
    /\ everAudited' = everAudited \cup {trackerId}
    /\ UNCHANGED <<numOfUniqueTrackers, numOfProducts, trackerMappings,
                   productData, owners, lockedAmount, productBalance,
                   isAuditorApproved, approvedAuditorsOnly, registeredTracker,
                   netAvailable>>

\* function audit
audit(sender, trackerId) ==
    /\ notAudited(trackerId)
    /\ isAuditorFor(sender, trackerData[trackerId].trackee)
    /\ trackerData' = [trackerData EXCEPT ![trackerId].auditor = sender]
    /\ everAudited' = everAudited \cup {trackerId}
    /\ UNCHANGED <<numOfUniqueTrackers, numOfProducts, trackerMappings,
                   productData, owners, lockedAmount, productBalance,
                   isAuditorApproved, approvedAuditorsOnly, registeredTracker,
                   netAvailable>>

\* Variant of removeAudit: only the recorded auditor may remove the audit.
removeAudit_byRecordedAuditor(sender, trackerId) ==
    /\ isAuditorFor(sender, trackerData[trackerId].trackee)
    /\ trackerData[trackerId].auditor = sender
    /\ trackerData' = [trackerData EXCEPT ![trackerId].auditor = Zero]
    /\ UNCHANGED <<numOfUniqueTrackers, numOfProducts, trackerMappings,
                   productData, owners, lockedAmount, productBalance,
                   isAuditorApproved, approvedAuditorsOnly, registeredTracker,
                   netAvailable, everAudited>>

\* function removeAudit
removeAudit(sender, trackerId) ==
    /\ isAuditorFor(sender, trackerData[trackerId].trackee)
    /\ trackerData' = [trackerData EXCEPT ![trackerId].auditor = Zero]
    /\ UNCHANGED <<numOfUniqueTrackers, numOfProducts, trackerMappings,
                   productData, owners, lockedAmount, productBalance,
                   isAuditorApproved, approvedAuditorsOnly, registeredTracker,
                   netAvailable, everAudited>>

\* Variant of the loop of productsUpdate: a new product is not pushed onto the
\* tracker's productIds.
RECURSIVE productsUpdateLoop_notListed(_, _, _, _, _, _)
productsUpdateLoop_notListed(sender, trackerId, productIds, productAmounts, i, acc) ==
    IF ~acc.ok \/ i > Len(productIds) THEN acc
    ELSE LET amount == productAmounts[i]
             existing == productIds[i] > 0
             productId == IF existing THEN productIds[i] ELSE acc.n + 1
             belongs == acc.pd[productId].trackerId = trackerId
             under == acc.total < amount
             isProductAuditor == acc.pd[productId].auditor = sender
             total1 == IF existing THEN acc.total - amount ELSE acc.total
             pd1 == IF existing THEN acc.pd
                    ELSE [acc.pd EXCEPT ![productId].trackerId = trackerId,
                                        ![productId].auditor = sender]
         IN  IF existing /\ (~belongs \/ under \/ ~isProductAuditor)
             THEN [acc EXCEPT !.ok = FALSE]
             ELSE productsUpdateLoop_notListed(sender, trackerId, productIds,
                     productAmounts, i + 1,
                     [ok |-> TRUE,
                      n |-> IF existing THEN acc.n ELSE acc.n + 1,
                      pd |-> [pd1 EXCEPT ![productId].amount = amount,
                                         ![productId].available = amount],
                      total |-> total1 + amount,
                      pids |-> acc.pids])

\* Variant of the loop of productsUpdate: the update of a registered product
\* leaves its available amount as it is.
RECURSIVE productsUpdateLoop_availableKept(_, _, _, _, _, _)
productsUpdateLoop_availableKept(sender, trackerId, productIds, productAmounts, i, acc) ==
    IF ~acc.ok \/ i > Len(productIds) THEN acc
    ELSE LET amount == productAmounts[i]
             existing == productIds[i] > 0
             productId == IF existing THEN productIds[i] ELSE acc.n + 1
             belongs == acc.pd[productId].trackerId = trackerId
             under == acc.total < amount
             isProductAuditor == acc.pd[productId].auditor = sender
             total1 == IF existing THEN acc.total - amount ELSE acc.total
             pd1 == IF existing THEN acc.pd
                    ELSE [acc.pd EXCEPT ![productId].trackerId = trackerId,
                                        ![productId].auditor = sender,
                                        ![productId].available = amount]
         IN  IF existing /\ (~belongs \/ under \/ ~isProductAuditor)
             THEN [acc EXCEPT !.ok = FALSE]
             ELSE productsUpdateLoop_availableKept(sender, trackerId, productIds,
                     productAmounts, i + 1,
                     [ok |-> TRUE,
                      n |-> IF existing THEN acc.n ELSE acc.n + 1,
                      pd |-> [pd1 EXCEPT ![productId].amount = amount],
                      total |-> total1 + amount,
                      pids |-> IF existing THEN acc.pids
                               ELSE Append(acc.pids, productId)])

\* Variant of the loop of productsUpdate: an update of an existing product is
\* open to every auditor of the tracker, who is recorded as its auditor.
RECURSIVE productsUpdateLoop_auditorTakenOver(_, _, _, _, _, _)
productsUpdateLoop_auditorTakenOver(sender, trackerId, productIds, productAmounts, i, acc) ==
    IF ~acc.ok \/ i > Len(productIds) THEN acc
    ELSE LET amount == productAmounts[i]
             existing == productIds[i] > 0
             productId == IF existing THEN productIds[i] ELSE acc.n + 1
             belongs == acc.pd[productId].trackerId = trackerId
             under == acc.total < amount
             total1 == IF existing THEN acc.total - amount ELSE acc.total
             pd1 == [acc.pd EXCEPT ![productId].trackerId = trackerId,
                                   ![productId].auditor = sender]
         IN  IF existing /\ (~belongs \/ under)
             THEN [acc EXCEPT !.ok = FALSE]
             ELSE productsUpdateLoop_auditorTakenOver(sender, trackerId, productIds,
                     productAmounts, i + 1,
                     [ok |-> TRUE,
                      n |-> IF existing THEN acc.n ELSE acc.n + 1,
                      pd |-> [pd1 EXCEPT ![productId].amount = amount,
                                         ![productId].available = amount],
                      total |-> total1 + amount,
                      pids |-> IF existing THEN acc.pids
                               ELSE Append(acc.pids, productId)])

\* One pass of the loop of productsUpdate (lines 631-661) from entry i on.
\* acc = [ok, n, pd, total, pids]: the call has not reverted, _numOfProducts,
\* _productData, the tracker's totalProductAmounts and its productIds array.
RECURSIVE productsUpdateLoop(_, _, _, _, _, _)
productsUpdateLoop(sender, trackerId, productIds, productAmounts, i, acc) ==
    IF ~acc.ok \/ i > Len(productIds) THEN acc
    ELSE LET amount == productAmounts[i]
             existing == productIds[i] > 0
             productId == IF existing THEN productIds[i] ELSE acc.n + 1
             belongs == acc.pd[productId].trackerId = trackerId
             under == acc.total < amount
             isProductAuditor == acc.pd[productId].auditor = sender
             total1 == IF existing THEN acc.total - amount ELSE acc.total
             pd1 == IF existing THEN acc.pd
                    ELSE [acc.pd EXCEPT ![productId].trackerId = trackerId,
                                        ![productId].auditor = sender]
         IN  IF existing /\ (~belongs \/ under \/ ~isProductAuditor)
             THEN [acc EXCEPT !.ok = FALSE]
             ELSE productsUpdateLoop(sender, trackerId, productIds, productAmounts, i + 1,
                     [ok |-> TRUE,
                      n |-> IF existing THEN acc.n ELSE acc.n + 1,
                      pd |-> [pd1 EXCEPT ![productId].amount = amount,
                                         ![productId].available = amount],
                      total |-> total1 + amount,
                      pids |-> IF existing THEN acc.pids
                               ELSE Append(acc.pids, productId)])

\* The number of entries of productIds that create a product.
RECURSIVE newProducts(_)
newProducts(productIds) ==
    IF productIds = <<>> THEN 0
    ELSE (IF Head(productIds) = 0 THEN 1 ELSE 0) + newProducts(Tail(productIds))

\* function productsUpdate; the names, units and unit amounts are given with
\* the length of productIds (their three length checks pass).
productsUpdate(sender, trackerId, productIds, productAmounts) ==
    LET r == productsUpdateLoop(sender, trackerId, productIds, productAmounts, 1,
                 [ok |-> TRUE, n |-> numOfProducts, pd |-> productData,
                  total |-> trackerData[trackerId].totalProductAmounts,
                  pids |-> trackerMappings[trackerId].productIds])
    IN  /\ notAudited(trackerId)
        /\ trackerExists(trackerId)
        /\ isAuditorFor(sender, trackerData[trackerId].trackee)
        /\ Len(productAmounts) = Len(productIds)
        /\ r.ok
        /\ numOfProducts' = r.n
        /\ productData' = r.pd
        /\ trackerData' = [trackerData EXCEPT ![trackerId].totalProductAmounts = r.total]
        /\ trackerMappings' = [trackerMappings EXCEPT ![trackerId].productIds = r.pids]
        /\ UNCHANGED <<numOfUniqueTrackers, owners, lockedAmount, productBalance,
                       isAuditorApproved, approvedAuditorsOnly, registeredTracker,
                       netAvailable, everAudited>>

\* Variant of transferProduct: the owner draws on the available amount
\* whether or not the tracker is audited.
transferProduct_beforeAudit(sender, productId, productAmount, trackee) ==
    LET product == productData[productId]
        isOwner == owners[product.trackerId] = sender
        available == IF isOwner THEN product.available ELSE 0
        total == productBalance[productId][sender] + available
        residualAmount == IF available > 0
                          THEN (IF productAmount > available
                                THEN productAmount - available ELSE 0)
                          ELSE productAmount
        available1 == IF available > 0
                      THEN (IF productAmount > available THEN 0
                            ELSE product.available - productAmount)
                      ELSE product.available
        balance1 == [productBalance[productId] EXCEPT ![sender] = @ - residualAmount]
        balance2 == [balance1 EXCEPT ![trackee] = @ + productAmount]
    IN  /\ minted(product.trackerId)
        /\ total > productAmount
        /\ productData' = [productData EXCEPT ![productId].available = available1]
        /\ productBalance' = [productBalance EXCEPT ![productId] = balance2]
        /\ UNCHANGED <<numOfUniqueTrackers, numOfProducts, trackerData,
                       trackerMappings, owners, lockedAmount, isAuditorApproved,
                       approvedAuditorsOnly, registeredTracker, netAvailable, everAudited>>

\* Variant of transferProduct: the residual is not taken from the caller's
\* balance.
transferProduct_residualKept(sender, productId, productAmount, trackee) ==
    LET product == productData[productId]
        isOwner == owners[product.trackerId] = sender
        available == IF isOwner THEN product.available ELSE 0
        total == productBalance[productId][sender] + available
        available1 == IF available > 0
                      THEN (IF productAmount > available THEN 0
                            ELSE product.available - productAmount)
                      ELSE product.available
        balance2 == [productBalance[productId] EXCEPT ![trackee] = @ + productAmount]
    IN  /\ minted(product.trackerId)
        /\ isOwner => isAudited(product.trackerId)
        /\ total > productAmount
        /\ productData' = [productData EXCEPT ![productId].available = available1]
        /\ productBalance' = [productBalance EXCEPT ![productId] = balance2]
        /\ UNCHANGED <<numOfUniqueTrackers, numOfProducts, trackerData,
                       trackerMappings, owners, lockedAmount, isAuditorApproved,
                       approvedAuditorsOnly, registeredTracker, netAvailable, everAudited>>

\* function transferProduct
transferProduct(sender, productId, productAmount, trackee) ==
    LET product == productData[productId]
        isOwner == owners[product.trackerId] = sender
        available == IF isOwner THEN product.available ELSE 0
        total == productBalance[productId][sender] + available
        residualAmount == IF available > 0
                          THEN (IF productAmount > available
                                THEN productAmount - available ELSE 0)
                          ELSE productAmount
        available1 == IF available > 0
                      THEN (IF productAmount > available THEN 0
                            ELSE product.available - productAmount)
                      ELSE product.available
        balance1 == [productBalance[productId] EXCEPT ![sender] = @ - residualAmount]
        balance2 == [balance1 EXCEPT ![trackee] = @ + productAmount]
    IN  /\ minted(product.trackerId)
        /\ isOwner => isAudited(product.trackerId)
        /\ total > productAmount
        /\ productData' = [productData EXCEPT ![productId].available = available1]
        /\ productBalance' = [productBalance EXCEPT ![productId] = balance2]
        /\ UNCHANGED <<numOfUniqueTrackers, numOfProducts, trackerData,
                       trackerMappings, owners, lockedAmount, isAuditorApproved,
                       approvedAuditorsOnly, registeredTracker, netAvailable, everAudited>>

\* Variant of _updateTrackedProducts: the tracked amount is written over,
\* not added to.
updateTrackedProducts_overwriting(tm, sourceTrackerId, productId, productAmount) ==
    LET pt0 == tm.productsTracked[sourceTrackerId]
        listed == pt0.productIndex[productId] > 0
        pt1 == [pt0 EXCEPT !.amount[productId] = productAmount]
    IN  IF productAmount = 0 \/ listed
        THEN [tm EXCEPT !.productsTracked[sourceTrackerId] = pt1]
        ELSE [tm EXCEPT !.productsTracked[sourceTrackerId] =
                            [pt1 EXCEPT !.productIds = Append(@, productId),
                                        !.productIndex[productId] = Len(pt0.productIds) + 1],
                        !.trackerIds = IF tm.trackerIndex[sourceTrackerId] = 0
                                       THEN Append(@, sourceTrackerId) ELSE @,
                        !.trackerIndex[sourceTrackerId] =
                            IF @ = 0 THEN Len(tm.trackerIds) + 1 ELSE @]

\* function _updateTrackedProducts on the mappings tm of the target tracker.
\* `delete a[i]` zeroes a slot and keeps the array's length; `delete` of a
\* ProductsTracked struct empties its array and keeps its mappings.
updateTrackedProducts(tm, sourceTrackerId, productId, productAmount) ==
    LET pt0 == tm.productsTracked[sourceTrackerId]
        amt == pt0.amount[productId] + productAmount
        pt1 == [pt0 EXCEPT !.amount[productId] = amt]
        trackerIndex == tm.trackerIndex[sourceTrackerId]
        productIndex == pt1.productIndex[productId]
        n == Len(pt1.productIds)
        ids1 == IF n > 1 THEN [pt1.productIds EXCEPT ![productIndex] = pt1.productIds[n]]
                ELSE pt1.productIds
        idx1 == IF n > 1 THEN [pt1.productIndex EXCEPT ![ids1[productIndex]] = productIndex]
                ELSE pt1.productIndex
        dropped == [pt1 EXCEPT !.productIds = [ids1 EXCEPT ![n] = 0],
                               !.productIndex = [idx1 EXCEPT ![productId] = 0]]
        pt2 == IF amt > 0
               THEN (IF productIndex = 0
                     THEN [pt1 EXCEPT !.productIds = Append(@, productId),
                                      !.productIndex[productId] = n + 1]
                     ELSE pt1)
               ELSE [(IF productIndex > 0 THEN dropped ELSE pt1)
                        EXCEPT !.amount[productId] = 0]
        m == Len(tm.trackerIds)
        tids1 == IF m > 1 THEN [tm.trackerIds EXCEPT ![trackerIndex] = tm.trackerIds[m]]
                 ELSE tm.trackerIds
        tidx1 == IF m > 1 THEN [tm.trackerIndex EXCEPT ![tids1[trackerIndex]] = trackerIndex]
                 ELSE tm.trackerIndex
    IN  IF Len(pt2.productIds) > 0
        THEN (IF trackerIndex = 0
              THEN [tm EXCEPT !.productsTracked[sourceTrackerId] = pt2,
                              !.trackerIds = Append(@, sourceTrackerId),
                              !.trackerIndex[sourceTrackerId] = m + 1]
              ELSE [tm EXCEPT !.productsTracked[sourceTrackerId] = pt2])
        ELSE (IF trackerIndex > 0
              THEN [tm EXCEPT !.productsTracked[sourceTrackerId] =
                                  [pt2 EXCEPT !.productIds = <<>>],
                              !.trackerIds = [tids1 EXCEPT ![m] = 0],
                              !.trackerIndex = [tidx1 EXCEPT ![sourceTrackerId] = 0]]
              ELSE [tm EXCEPT !.productsTracked[sourceTrackerId] =
                                  [pt2 EXCEPT !.productIds = <<>>]])

\* Variant of trackProduct: the caller's whole balance may be tracked.
trackProduct_wholeBalance(sender, trackerId, sourceTrackerId, productId, productAmount) ==
    /\ notAudited(trackerId)
    /\ trackerExists(trackerId)
    /\ isAuditorOrOwner(trackerId, sender)
    /\ trackerId # productData[productId].trackerId
    /\ productBalance[productId][sender] >= productAmount
    /\ productBalance' = [productBalance EXCEPT ![productId][sender] = @ - productAmount]
    /\ trackerMappings' = [trackerMappings EXCEPT ![trackerId] =
           updateTrackedProducts(@, sourceTrackerId, productId, productAmount)]
    /\ UNCHANGED <<numOfUniqueTrackers, numOfProducts, trackerData, productData,
                   owners, lockedAmount, isAuditorApproved, approvedAuditorsOnly,
                   registeredTracker, netAvailable, everAudited>>

\* function trackProduct
trackProduct(sender, trackerId, sourceTrackerId, productId, productAmount) ==
    /\ notAudited(trackerId)
    /\ trackerExists(trackerId)
    /\ isAuditorOrOwner(trackerId, sender)
    /\ trackerId # productData[productId].trackerId
    /\ productBalance[productId][sender] > productAmount
    /\ productBalance' = [productBalance EXCEPT ![productId][sender] = @ - productAmount]
    /\ trackerMappings' = [trackerMappings EXCEPT ![trackerId] =
           updateTrackedProducts(@, sourceTrackerId, productId, productAmount)]
    /\ UNCHANGED <<numOfUniqueTrackers, numOfProducts, trackerData, productData,
                   owners, lockedAmount, isAuditorApproved, approvedAuditorsOnly,
                   registeredTracker, netAvailable, everAudited>>

\* Variant of registerTracker: the modifier selfOrAuditor is left off.
registerTracker_byAnyone(sender, tracker) ==
    /\ sender \in Accounts
    /\ registeredTracker' = registeredTracker \cup {tracker}
    /\ UNCHANGED <<numOfUniqueTrackers, numOfProducts, trackerData,
                   trackerMappings, productData, owners, lockedAmount,
                   productBalance, isAuditorApproved, approvedAuditorsOnly,
                   netAvailable, everAudited>>

\* function registerTracker, behind modifier selfOrAuditor
registerTracker(sender, tracker) ==
    /\ (tracker = sender \/ netIsAuditor(sender))
    /\ registeredTracker' = registeredTracker \cup {tracker}
    /\ UNCHANGED <<numOfUniqueTrackers, numOfProducts, trackerData,
                   trackerMappings, productData, owners, lockedAmount,
                   productBalance, isAuditorApproved, approvedAuditorsOnly,
                   netAvailable, everAudited>>

\* Variant of approveVerifier: the verifier's role is not asked for.
approveVerifier_anyVerifier(sender, verifier, approve) ==
    /\ sender \in registeredTracker
    /\ verifier # sender
    /\ isAuditorApproved' = [isAuditorApproved EXCEPT ![verifier][sender] = approve]
    /\ UNCHANGED <<numOfUniqueTrackers, numOfProducts, trackerData,
                   trackerMappings, productData, owners, lockedAmount,
                   productBalance, approvedAuditorsOnly, registeredTracker,
                   netAvailable, everAudited>>

\* function approveVerifier, behind modifier registeredTracker(msg.sender)
approveVerifier(sender, verifier, approve) ==
    /\ sender \in registeredTracker
    /\ (netIsAuditor(verifier) \/ ~approve)
    /\ verifier # sender
    /\ isAuditorApproved' = [isAuditorApproved EXCEPT ![verifier][sender] = approve]
    /\ UNCHANGED <<numOfUniqueTrackers, numOfProducts, trackerData,
                   trackerMappings, productData, owners, lockedAmount,
                   productBalance, approvedAuditorsOnly, registeredTracker,
                   netAvailable, everAudited>>

\* ERC721 transferFrom, inherited: the owner of a tracker token hands it to
\* another address (approvals of operators are left out).
transferFrom(sender, to, tokenId) ==
    /\ minted(tokenId)
    /\ owners[tokenId] = sender
    /\ to # Zero
    /\ owners' = [owners EXCEPT ![tokenId] = to]
    /\ UNCHANGED <<numOfUniqueTrackers, numOfProducts, trackerData,
                   trackerMappings, productData, lockedAmount, productBalance,
                   isAuditorApproved, approvedAuditorsOnly, registeredTracker,
                   netAvailable, everAudited>>

\* ------------------------------------------------------------------ views
\* The sum of a sequence of numbers; -1 when a term is -1 (no result).
RECURSIVE sumOf(_)
sumOf(terms) ==
    IF terms = <<>> THEN 0
    ELSE LET rest == sumOf(Tail(terms))
         IN  IF Head(terms) = -1 \/ rest = -1 THEN -1 ELSE Head(terms) + rest

\* getTotalEmissions and emissionsFactor call each other along the lineage.
\* `depth` is the number of nested calls left; a chain of calls longer than
\* the number of tracker ids revisits a tracker and never returns in the
\* contract (it runs out of gas): the result is then -1.
RECURSIVE totalEmissionsWithin(_, _)
RECURSIVE emissionsFactorWithin(_, _)

\* Variant of emissionsFactor: the division is rounded up.
emissionsFactorWithin_roundedUp(trackerId, depth) ==
    IF trackerData[trackerId].totalProductAmounts > 0
    THEN IF depth = 0 THEN -1
         ELSE LET e == totalEmissionsWithin(trackerId, depth - 1)
                  total == trackerData[trackerId].totalProductAmounts
              IN  IF e = -1 THEN -1
                  ELSE (e * decimalsEf + total - 1) \div total
    ELSE 0

\* function emissionsFactor
emissionsFactorWithin(trackerId, depth) ==
    IF trackerData[trackerId].totalProductAmounts > 0
    THEN IF depth = 0 THEN -1
         ELSE LET e == totalEmissionsWithin(trackerId, depth - 1)
              IN  IF e = -1 THEN -1
                  ELSE (e * decimalsEf) \div trackerData[trackerId].totalProductAmounts
    ELSE 0

\* Variant of _getTotalEmissions: the tracked amount is divided by decimalsEf
\* before it is multiplied by the emissions factor.
totalEmissionsWithin_dividedFirst(trackerId, depth) ==
    LET tm == trackerMappings[trackerId]
        direct == sumOf([i \in 1..Len(tm.tokenIds) |-> tm.amount[tm.tokenIds[i]]])
        fromSource(s) ==
            LET pt == tm.productsTracked[s]
            IN  sumOf([j \in 1..Len(pt.productIds) |->
                    LET ef == emissionsFactorWithin(s, depth)
                    IN  IF ef = -1 THEN -1
                        ELSE (pt.amount[pt.productIds[j]] \div decimalsEf) * ef])
        lineage == sumOf([i \in 1..Len(tm.trackerIds) |-> fromSource(tm.trackerIds[i])])
    IN  IF lineage = -1 THEN -1 ELSE direct + lineage

\* function _getTotalEmissions
totalEmissionsWithin(trackerId, depth) ==
    LET tm == trackerMappings[trackerId]
        direct == sumOf([i \in 1..Len(tm.tokenIds) |-> tm.amount[tm.tokenIds[i]]])
        fromSource(s) ==
            LET pt == tm.productsTracked[s]
            IN  sumOf([j \in 1..Len(pt.productIds) |->
                    LET ef == emissionsFactorWithin(s, depth)
                    IN  IF ef = -1 THEN -1
                        ELSE (pt.amount[pt.productIds[j]] * ef) \div decimalsEf])
        lineage == sumOf([i \in 1..Len(tm.trackerIds) |-> fromSource(tm.trackerIds[i])])
    IN  IF lineage = -1 THEN -1 ELSE direct + lineage

\* function getTotalEmissions
getTotalEmissions(trackerId) == totalEmissionsWithin(trackerId, MaxTrackers + 1)

emissionsFactor(trackerId) == emissionsFactorWithin(trackerId, MaxTrackers + 2)

\* ------------------------------------------------------- unit signatures
\* address(this)
thisAddress == "clm8"

\* The texts given as unit and unitAmount: strings as sequences of characters.
Texts == {<<"1">>, <<"1", "1">>}

\* function _getUnitHash: the hash of abi.encodePacked(address(this),
\* trackerId, productId, unit, unitAmount).  The address and the two uint256
\* are packed at their fixed widths; the two strings are packed as their
\* bytes, one after the other, with no length and no padding.  keccak256 is
\* taken as injective on the packed bytes.
getUnitHash(trackerId, productId, unit, unitAmount) ==
    <<thisAddress, trackerId, productId, unit \o unitAmount>>

\* ECDSA.toEthSignedMessageHash: the hash of the prefixed hash.
toEthSignedMessageHash(hash) == <<"Ethereum Signed Message", hash>>

\* A signature is made by a signer over a digest.  ECDSA.recover gives the
\* signer for the digest signed, and for any other digest an address that is
\* no account of the model.
recover(digest, signature) ==
    IF signature.digest = digest THEN signature.signer ELSE "unrelated"

\* What signer makes by signing the unit hash of (trackerId, productId, unit,
\* unitAmount), as the auditor submitting product data does off-chain.
signatureOf(signer, trackerId, productId, unit, unitAmount) ==
    [signer |-> signer,
     digest |-> toEthSignedMessageHash(getUnitHash(trackerId, productId, unit, unitAmount))]

\* function verifyUnitSignature, a view: ok is FALSE where a modifier
\* reverts, and value is the boolean returned otherwise.
verifyUnitSignature(trackerId, productId, unit, unitAmount, signature) ==
    IF ~ (isAudited(trackerId) /\ trackerExists(trackerId))
    THEN [ok |-> FALSE, value |-> FALSE]
    ELSE LET signer == productData[productId].auditor
             ethSignedUnitHash ==
                 toEthSignedMessageHash(getUnitHash(trackerId, productId, unit, unitAmount))
         IN  [ok |-> TRUE, value |-> recover(ethSignedUnitHash, signature) = signer]

\* ----------------------------------------------------------- the inputs
\* What the calls of a specification are drawn from.
\*   callers      msg.sender
\*   mintArgs     (issuedTo, trackee) of track
\*   dateArgs     (fromDate, thruDate) of track and trackUpdate
\*   tokenArgs    (tokenIds, tokenAmounts) of track and trackUpdate
\*   productArgs  (productIds, productAmounts) of productsUpdate
\*   trackerIds   the trackerId of trackUpdate, productsUpdate, audit and
\*                removeAudit
\*   lineageArgs  (trackerId, sourceTrackerId) of trackProduct
\*   productIds   the productId of transferProduct and trackProduct
\*   quantities   productAmount of transferProduct and trackProduct
\*   recipients   the address transferProduct sends to
\*   registrants  the address registerTracker registers
\*   approvals    (verifier, approve) of approveVerifier
\*   supply       what NET reports available to the contract, per token
\*   maxLocked, maxBalance   the amounts beyond which calls are not explored
\* Base registers the admin again and revokes an approval never given: the
\* role and the approvals feed no guard but approveVerifier's own
\* (approvedAuditorsOnly is never set); NetCalls below varies them.
Base ==
    [callers |-> {Auditor, Industry, Admin},
     mintArgs |-> {<<Industry, Industry>>, <<Admin, Admin>>},
     dateArgs |-> {<<0, 0>>},
     tokenArgs |-> {<<<<>>, <<>>>>, <<<<1>>, <<1>>>>},
     productArgs |-> {<<<<0>>, <<3>>>>, <<<<1>>, <<2>>>>, <<<<0, 1>>, <<1, 1>>>>,
                      <<<<2>>, <<3>>>>},
     trackerIds |-> TrackerIds,
     lineageArgs |-> {<<2, 1>>, <<2, 2>>, <<1, 2>>},
     productIds |-> {1},
     quantities |-> {1, 2},
     recipients |-> {Admin},
     registrants |-> {Admin},
     approvals |-> {<<Auditor, FALSE>>},
     supply |-> Supply,
     maxLocked |-> MaxLocked,
     maxBalance |-> MaxBalance]

InitWith(P) ==
    /\ numOfUniqueTrackers = 0
    /\ numOfProducts = 0
    /\ trackerData = [t \in TrackerIds |-> NoTrackerDetails]
    /\ trackerMappings = [t \in TrackerIds |-> NoTrackerMappings]
    /\ productData = [p \in ProductIds |-> NoProductDetails]
    /\ owners = [t \in TrackerIds |-> Zero]
    /\ lockedAmount = [k \in Tokens |-> 0]
    /\ productBalance = [p \in ProductIds |-> [a \in Addresses |-> 0]]
    /\ isAuditorApproved = [a \in Addresses |-> [b \in Addresses |-> FALSE]]
    /\ approvedAuditorsOnly = [a \in Addresses |-> FALSE]
    /\ registeredTracker = {Admin}
    /\ netAvailable = [k \in Tokens |-> P.supply]
    /\ everAudited = {}

\* A call of every public function, with inputs from P; the primed conjuncts
\* after a call keep the exploration within P's bounds.
NextWith(P) ==
    \/ \E c \in P.callers, m \in P.mintArgs, a \in P.tokenArgs, d \in P.dateArgs :
          /\ numOfUniqueTrackers < MaxTrackers
          /\ track(c, m[1], m[2], a[1], a[2], d[1], d[2])
          /\ \A k \in Tokens : lockedAmount'[k] <= P.maxLocked
    \/ \E c \in P.callers, t \in P.trackerIds, a \in P.tokenArgs, d \in P.dateArgs :
          /\ trackUpdate(c, t, a[1], a[2], d[1], d[2])
          /\ \A k \in Tokens : lockedAmount'[k] <= P.maxLocked
    \/ \E c \in P.callers, t \in P.trackerIds, a \in P.productArgs :
          /\ numOfProducts + newProducts(a[1]) <= MaxProducts
          /\ productsUpdate(c, t, a[1], a[2])
    \/ \E c \in P.callers, p \in P.productIds, q \in P.quantities, to \in P.recipients :
          /\ transferProduct(c, p, q, to)
          /\ productBalance'[p][to] <= P.maxBalance
    \/ \E c \in P.callers, l \in P.lineageArgs, p \in P.productIds,
          q \in P.quantities :
          /\ trackProduct(c, l[1], l[2], p, q)
          /\ trackerMappings'[l[1]].productsTracked[l[2]].amount[p] <= P.maxBalance
    \/ \E c \in P.callers, t \in P.trackerIds : audit(c, t)
    \/ \E c \in P.callers, t \in P.trackerIds : removeAudit(c, t)
    \/ \E c \in P.callers, a \in P.registrants : registerTracker(c, a)
    \/ \E c \in P.callers, a \in P.approvals : approveVerifier(c, a[1], a[2])

Init == InitWith(Base)

Next == NextWith(Base)

Spec == Init /\ [][Next]_vars

\* Token locking in depth: every token type, duplicates of a token within a
\* call, mismatched lengths; no call from the network contract.
TokenCalls ==
    [Base EXCEPT !.mintArgs = {<<Industry, Industry>>},
                 !.recipients = {Auditor},
                 !.tokenArgs = {<<<<>>, <<>>>>, <<<<1>>, <<1>>>>, <<<<2>>, <<1>>>>,
                                <<<<2>>, <<0>>>>, <<<<3>>, <<1>>>>,
                                <<<<1, 1>>, <<1, 1>>>>, <<<<3, 1>>, <<1, 1>>>>,
                                <<<<>>, <<1>>>>, <<<<1>>, <<>>>>},
                 !.productArgs = {<<<<0>>, <<3>>>>},
                 !.lineageArgs = {<<2, 1>>},
                 !.quantities = {1}]

SpecTokens == InitWith(TokenCalls) /\ [][NextWith(TokenCalls)]_vars

\* The network contract among the callers: it passes for an auditor and
\* skips the availability check of _trackTokens.  The industry account
\* registers itself and approves and revokes the auditor.
NetCalls ==
    [Base EXCEPT !.callers = {netAddress, Auditor, Industry},
                 !.mintArgs = {<<Industry, Industry>>},
                 !.recipients = {Auditor},
                 !.registrants = {Industry},
                 !.approvals = {<<Auditor, TRUE>>, <<Auditor, FALSE>>},
                 !.productArgs = {<<<<0>>, <<3>>>>},
                 !.lineageArgs = {<<2, 1>>},
                 !.quantities = {1}]

SpecNet == InitWith(NetCalls) /\ [][NextWith(NetCalls)]_vars

\* The amounts of the spec's worked examples: a token of 100 and one of 57
\* locked, products of 50, quantities of 20 and 30 transferred to the auditor
\* and tracked from tracker 1 into tracker 2.
ExampleCalls ==
    [Base EXCEPT !.tokenArgs = {<<<<>>, <<>>>>, <<<<1>>, <<100>>>>, <<<<4>>, <<57>>>>},
                 !.productArgs = {<<<<0>>, <<50>>>>},
                 !.lineageArgs = {<<2, 1>>},
                 !.productIds = {1, 2},
                 !.quantities = {20, 30},
                 !.recipients = {Auditor},
                 !.supply = ExampleSupply,
                 !.maxLocked = ExampleSupply,
                 !.maxBalance = ExampleMaxBalance]

SpecExample == InitWith(ExampleCalls) /\ [][NextWith(ExampleCalls)]_vars

\* The transfers of the spec's worked example: a product of 100, quantities
\* of 40 and 10 sent to the admin and the auditor, and the tracker tokens
\* themselves changing hands between the industry account and the admin.
TransferCalls ==
    [Base EXCEPT !.mintArgs = {<<Industry, Industry>>},
                 !.tokenArgs = {<<<<>>, <<>>>>},
                 !.productArgs = {<<<<0>>, <<100>>>>},
                 !.lineageArgs = {<<2, 1>>},
                 !.quantities = {40, 10},
                 !.recipients = {Admin, Auditor},
                 !.maxBalance = TransferMaxBalance]

NextTransfer ==
    \/ NextWith(TransferCalls)
    \/ \E c \in TransferCalls.callers, to \in {Industry, Admin}, t \in TrackerIds :
          transferFrom(c, to, t)

SpecTransfer == InitWith(TransferCalls) /\ [][NextTransfer]_vars

\* The indexed sets in depth: two tokens of type 4 and one of another type
\* locked in either order, two products tracked from two sources, amounts of
\* zero among the quantities.
LineageCalls ==
    [Base EXCEPT !.callers = {Auditor, Industry},
                 !.mintArgs = {<<Industry, Industry>>},
                 !.tokenArgs = {<<<<1>>, <<1>>>>, <<<<4, 3>>, <<1, 1>>>>, <<<<4>>, <<0>>>>},
                 !.productArgs = {<<<<0>>, <<3>>>>},
                 !.lineageArgs = {<<2, 1>>, <<2, 2>>},
                 !.productIds = {1, 2},
                 !.quantities = {0, 1},
                 !.recipients = {Auditor},
                 !.registrants = {Industry}]

SpecLineage == InitWith(LineageCalls) /\ [][NextWith(LineageCalls)]_vars

\* Registration and approvals with calls that go on for ever: the industry
\* account registers itself and approves and revokes the auditor, trackers
\* are created, filled with a product, audited and unaudited.  Some call that
\* changes the state is possible in every state (an audit or a removeAudit),
\* and the calls do not stop.
ApprovalCalls ==
    [Base EXCEPT !.callers = {Auditor, Industry},
                 !.mintArgs = {<<Industry, Industry>>},
                 !.tokenArgs = {<<<<>>, <<>>>>, <<<<1>>, <<1>>>>},
                 !.recipients = {Auditor},
                 !.registrants = {Industry},
                 !.approvals = {<<Auditor, TRUE>>, <<Auditor, FALSE>>},
                 !.productArgs = {<<<<0>>, <<3>>>>},
                 !.lineageArgs = {<<2, 1>>},
                 !.quantities = {1}]

SpecApprovals ==
    /\ InitWith(ApprovalCalls)
    /\ [][NextWith(ApprovalCalls)]_vars
    /\ WF_vars(NextWith(ApprovalCalls))

\* ------------------------------------------------------------- the claims
\* The products registered on tracker t.
productsOf(t) == {p \in 1..numOfProducts : productData[p].trackerId = t}

RECURSIVE sumOfAmounts(_)
sumOfAmounts(S) ==
    IF S = {} THEN 0
    ELSE LET p == CHOOSE x \in S : TRUE
         IN  productData[p].amount + sumOfAmounts(S \ {p})

\* C1: in every reachable state, every tracker's totalProductAmounts equals
\* the sum of `amount` over the products whose trackerId is that tracker,
\* whatever productsUpdate calls created and updated them.
C1_TotalIsSumOfAmounts ==
    \A t \in 1..numOfUniqueTrackers :
        trackerData[t].totalProductAmounts = sumOfAmounts(productsOf(t))

\* What the claims call the content of tracker t: its per-token amounts, token
\* set, product set and product amounts, total, dates and lineage records.
trackerContent(t) ==
    <<trackerMappings[t].amount, trackerMappings[t].tokenIds,
      trackerMappings[t].productIds,
      [p \in productsOf(t) |-> productData[p].amount],
      trackerData[t].totalProductAmounts,
      trackerData[t].fromDate, trackerData[t].thruDate,
      trackerMappings[t].trackerIds,
      [s \in TrackerIds |-> trackerMappings[t].productsTracked[s].amount]>>

\* C2: audited trackers are immutable: in every step in which tracker id t
\* has its auditor set before and after, the content of t is the same before
\* and after.
C2_AuditedIsImmutable ==
    [][\A t \in TrackerIds :
          (isAudited(t) /\ isAudited(t)') => trackerContent(t)' = trackerContent(t)]_vars

\* The arguments the claims about rejected and accepted calls range over.
AnyTokenArgs ==
    {<<<<>>, <<>>>>, <<<<1>>, <<1>>>>, <<<<1>>, <<0>>>>, <<<<2>>, <<1>>>>,
     <<<<3>>, <<1>>>>, <<<<1, 1>>, <<1, 1>>>>, <<<<1, 4>>, <<1, 1>>>>,
     <<<<1>>, <<3>>>>}

AnyDateArgs == {<<0, 0>>, <<1, 2>>}

AnyProductArgs ==
    {<<<<>>, <<>>>>, <<<<0>>, <<1>>>>, <<<<1>>, <<1>>>>, <<<<1>>, <<4>>>>,
     <<<<2>>, <<0>>>>, <<<<0, 1>>, <<1, 1>>>>}

\* The product arguments that stay within the explored product ids.
ProductArgsInRange ==
    {a \in AnyProductArgs : numOfProducts + newProducts(a[1]) <= MaxProducts}

\* C3: on a minted tracker that is audited, no call of trackUpdate,
\* productsUpdate or trackProduct targeting it can succeed, whoever calls and
\* whatever the arguments; a failed call is no step, so the state is unchanged.
C3_AuditedRejectsUpdates ==
    \A t \in TrackerIds :
        (minted(t) /\ isAudited(t)) =>
            ~ ENABLED (\E c \in Accounts :
                \/ \E a \in AnyTokenArgs, d \in AnyDateArgs :
                      trackUpdate(c, t, a[1], a[2], d[1], d[2])
                \/ \E a \in ProductArgsInRange : productsUpdate(c, t, a[1], a[2])
                \/ \E s \in TrackerIds, p \in ProductIds, q \in 0..MaxBalance :
                      trackProduct(c, t, s, p, q))

\* A minted, audited tracker on which a token or product update by the
\* auditor passes every check but notAudited (industry trackee, token 1
\* available, a product id free), and one into which its owner could track a
\* balance but for notAudited.
C3_Witness ==
    /\ \E t \in 1..numOfUniqueTrackers :
          /\ minted(t) /\ isAudited(t) /\ t \in everAudited
          /\ trackeeIsIndustry(trackerData[t].trackee)
          /\ isAuditorFor(Auditor, trackerData[t].trackee)
          /\ lockedAmount[1] < netAvailable[1]
          /\ numOfProducts < MaxProducts
    /\ \E t \in 1..numOfUniqueTrackers, p \in ProductIds, c \in Accounts :
          /\ minted(t) /\ isAudited(t) /\ t \in everAudited
          /\ productBalance[p][c] > 1
          /\ isAuditorOrOwner(t, c)
          /\ productData[p].trackerId # t

\* The amount a call submits for token k: the sum over the entries naming k.
RECURSIVE submitted(_, _, _)
submitted(tokenIds, tokenAmounts, k) ==
    IF tokenIds = <<>> \/ tokenAmounts = <<>> THEN 0
    ELSE (IF Head(tokenIds) = k THEN Head(tokenAmounts) ELSE 0)
         + submitted(Tail(tokenIds), Tail(tokenAmounts), k)

\* Caller c is an authorized auditor for the trackee: registered with the
\* network or the network contract itself, and approved where the trackee
\* restricts its auditors.
authorizedAuditor(c, trackee) ==
    /\ c \in {a \in Accounts : netIsAuditor(a)} \cup {netAddress}
    /\ approvedAuditorsOnly[trackee] => isAuditorApproved[c][trackee]

\* The preconditions of trackUpdate other than the audit state: authorization,
\* an industry trackee, equal lengths, availability of every token submitted.
trackUpdatePre(c, t, tokenIds, tokenAmounts) ==
    /\ authorizedAuditor(c, trackerData[t].trackee)
    /\ netIsIndustry(trackerData[t].trackee)
    /\ Len(tokenIds) = Len(tokenAmounts)
    /\ \/ c = netAddress
       \/ \A k \in Tokens :
             submitted(tokenIds, tokenAmounts, k) <= netAvailable[k] - lockedAmount[k]

\* The preconditions of productsUpdate other than the audit state:
\* authorization, equal lengths, and every product updated exists, belongs to
\* the tracker and was registered by the caller.
productsUpdatePre(c, t, productIds, productAmounts) ==
    /\ authorizedAuditor(c, trackerData[t].trackee)
    /\ Len(productIds) = Len(productAmounts)
    /\ \A i \in 1..Len(productIds) :
          productIds[i] # 0 =>
              /\ productIds[i] \in 1..numOfProducts
              /\ productData[productIds[i]].trackerId = t
              /\ productData[productIds[i]].auditor = c

\* The preconditions of trackProduct other than the audit state: the caller
\* owns the tracker or is an authorized auditor, the product exists and is not
\* the tracker's own, and the caller's balance exceeds the amount.
trackProductPre(c, t, p, q) ==
    /\ owners[t] = c \/ authorizedAuditor(c, trackerData[t].trackee)
    /\ p \in 1..numOfProducts
    /\ productData[p].trackerId # t
    /\ productBalance[p][c] > q

\* C4: once audit(t) has been followed by removeAudit(t), tracker t is
\* unaudited and accepts again every trackUpdate, productsUpdate and
\* trackProduct whose other preconditions (authorization, existence, lengths,
\* availability, balance) hold.
C4_RemoveAuditRestoresUpdates ==
    \A t \in 1..numOfUniqueTrackers :
        (minted(t) /\ t \in everAudited /\ ~isAudited(t)) =>
            \A c \in Accounts :
                /\ \A a \in AnyTokenArgs :
                      trackUpdatePre(c, t, a[1], a[2])
                          => ENABLED trackUpdate(c, t, a[1], a[2], 0, 0)
                /\ \A a \in ProductArgsInRange :
                      productsUpdatePre(c, t, a[1], a[2])
                          => ENABLED productsUpdate(c, t, a[1], a[2])
                /\ \A s \in TrackerIds, p \in ProductIds, q \in 0..MaxBalance :
                      trackProductPre(c, t, p, q)
                          => ENABLED trackProduct(c, t, s, p, q)

\* C5: a call of audit, removeAudit, productsUpdate, trackUpdate, or track
\* with a non-empty tokenIds list can succeed only for a caller that is an
\* authorized auditor of the tracker's trackee (for track: of the trackee
\* given): a network-registered auditor or the network contract, and approved
\* by the trackee where the trackee has approvedAuditorsOnly set.
C5_AuditorAuthorization ==
    \A c \in Accounts :
        /\ \A t \in TrackerIds :
              ~authorizedAuditor(c, trackerData[t].trackee) =>
                  ~ ENABLED (\/ audit(c, t)
                             \/ removeAudit(c, t)
                             \/ \E a \in ProductArgsInRange :
                                   productsUpdate(c, t, a[1], a[2])
                             \/ \E a \in AnyTokenArgs, d \in AnyDateArgs :
                                   trackUpdate(c, t, a[1], a[2], d[1], d[2]))
        /\ \A trackee \in Accounts :
              (numOfUniqueTrackers < MaxTrackers /\ ~authorizedAuditor(c, trackee)) =>
                  ~ ENABLED (\E io \in Accounts, a \in AnyTokenArgs, d \in AnyDateArgs :
                                /\ Len(a[1]) > 0
                                /\ track(c, io, trackee, a[1], a[2], d[1], d[2]))

\* The network contract has audited a tracker that holds a token it or the
\* auditor locked and a product, the trackee of which has approved the auditor;
\* the trackee itself is no auditor.
C5_Witness ==
    \E t \in 1..numOfUniqueTrackers :
        /\ trackerData[t].auditor = netAddress
        /\ trackerMappings[t].tokenIds # <<>>
        /\ productsOf(t) # {}
        /\ isAuditorApproved[Auditor][trackerData[t].trackee]
        /\ ~authorizedAuditor(trackerData[t].trackee, trackerData[t].trackee)

\* C6: with the availability NET reports constant and no call from the
\* network contract, lockedAmount[tokenId] never exceeds the available amount,
\* whatever track and trackUpdate calls on whatever trackers have locked it; and
\* a track or trackUpdate that submits more of a token than
\* available - lockedAmount cannot succeed.
C6_NoOverAllocation ==
    /\ \A k \in Tokens : lockedAmount[k] <= netAvailable[k]
    /\ \A c \in Accounts \ {netAddress}, a \in AnyTokenArgs :
          (\E k \in Tokens :
              submitted(a[1], a[2], k) > netAvailable[k] - lockedAmount[k]) =>
              ~ ENABLED (\/ \E t \in TrackerIds, d \in AnyDateArgs :
                               trackUpdate(c, t, a[1], a[2], d[1], d[2])
                         \/ \E m \in Accounts, d \in AnyDateArgs :
                               /\ numOfUniqueTrackers < MaxTrackers
                               /\ track(c, m, m, a[1], a[2], d[1], d[2]))

\* Token 1 is locked up to its whole available amount, by calls on two
\* trackers, and an auditor is there to ask for more.
C6_Witness ==
    /\ lockedAmount[1] = netAvailable[1]
    /\ numOfUniqueTrackers = 2
    /\ \A t \in 1..2 :
          /\ trackerMappings[t].amount[1] > 0
          /\ ~isAudited(t)
          /\ isAuditorFor(Auditor, trackerData[t].trackee)

\* lockedAmount after a call that submits tokenIds with tokenAmounts.
lockedAfter(tokenIds, tokenAmounts) ==
    [k \in Tokens |-> lockedAmount[k] + submitted(tokenIds, tokenAmounts, k)]

\* The token arguments the claim about lockedAmount ranges over: every token
\* type, a token twice in a call, two tokens in a call, zero amounts.
LockArgs ==
    {<<<<>>, <<>>>>, <<<<1>>, <<1>>>>, <<<<2>>, <<0>>>>, <<<<2>>, <<1>>>>,
     <<<<3>>, <<1>>>>, <<<<4>>, <<2>>>>, <<<<1, 1>>, <<1, 1>>>>,
     <<<<3, 1>>, <<1, 1>>>>}

\* C7: a successful track or trackUpdate leaves every lockedAmount[tokenId] at
\* its value before the call plus the sum of the amounts the call submitted for
\* that tokenId, whatever the token's type and with duplicates counted; and no
\* step of any operation decreases a lockedAmount.
C7_LockedGrowsBySubmitted ==
    /\ [](\A c \in Accounts, a \in LockArgs :
            ~ ENABLED (/\ \/ \E t \in TrackerIds : trackUpdate(c, t, a[1], a[2], 0, 0)
                          \/ \E m \in Accounts :
                               /\ numOfUniqueTrackers < MaxTrackers
                               /\ track(c, m, m, a[1], a[2], 0, 0)
                       /\ lockedAmount' # lockedAfter(a[1], a[2])))
    /\ [][\A k \in Tokens : lockedAmount'[k] >= lockedAmount[k]]_vars

\* Tokens of two types are locked, token 1 in more than one unit on one
\* tracker, and the auditor can still lock token 4 onto it.
C7_Witness ==
    /\ lockedAmount[1] = 2
    /\ lockedAmount[3] > 0
    /\ \E t \in 1..numOfUniqueTrackers :
          /\ trackerMappings[t].amount[1] = 2
          /\ ~isAudited(t)
          /\ trackUpdatePre(Auditor, t, <<4>>, <<2>>)

\* C8: on a tracker with no lineage an authorized auditor can lock type-4 and
\* type-2 tokens, and getTotalEmissions is then the type-4 amounts minus the
\* type-2 amounts: with 100 of token 1 (type 4) and 30 of token 2 (type 2)
\* available, locking [(1, 100), (2, 30)] onto an empty unaudited tracker
\* succeeds and getTotalEmissions returns 70.
C8_OffsetsSubtract ==
    \A t \in 1..numOfUniqueTrackers :
        (/\ minted(t) /\ ~isAudited(t)
         /\ trackerMappings[t].trackerIds = <<>>
         /\ trackerMappings[t].tokenIds = <<>>
         /\ getTokenTypeId(1) = 4 /\ getTokenTypeId(2) = 2
         /\ trackUpdatePre(Auditor, t, <<1, 2>>, <<100, 30>>))
            => ENABLED (/\ trackUpdate(Auditor, t, <<1, 2>>, <<100, 30>>, 0, 0)
                        /\ getTotalEmissions(t)' = 70)

\* C9: emissionsFactor(t) is 0 whenever t.totalProductAmounts = 0, whatever
\* t's emissions, and otherwise floor(getTotalEmissions(t) * 1000000 /
\* totalProductAmounts): the largest ef with ef * total <= emissions * 1000000.
\* (Where getTotalEmissions does not return, emissionsFactor does not either.)
C9_EmissionsFactor ==
    \A t \in TrackerIds :
        LET total == trackerData[t].totalProductAmounts
            te == getTotalEmissions(t)
            ef == emissionsFactor(t)
        IN  /\ total = 0 => ef = 0
            /\ (total > 0 /\ te # -1) =>
                  /\ ef >= 0
                  /\ ef * total <= te * 1000000
                  /\ te * 1000000 < (ef + 1) * total
            /\ (total > 0 /\ te = -1) => ef = -1

\* A tracker with emissions and no product amounts, and one whose emissions
\* do not divide evenly by its product amounts.
C9_Witness ==
    /\ \E t \in 1..numOfUniqueTrackers :
          trackerData[t].totalProductAmounts = 0 /\ getTotalEmissions(t) > 0
    /\ \E t \in 1..numOfUniqueTrackers :
          /\ trackerData[t].totalProductAmounts > 1
          /\ getTotalEmissions(t) > 0
          /\ (getTotalEmissions(t) * 1000000) % trackerData[t].totalProductAmounts # 0

\* The amount of product p tracked into tracker t from source tracker s.
tracked(t, s, p) == trackerMappings[t].productsTracked[s].amount[p]

\* The lineage entries of tracker t: the (source, product) pairs with a
\* tracked amount.
lineageOf(t) ==
    {e \in TrackerIds \X ProductIds : tracked(t, e[1], e[2]) > 0}

\* The sum of t's directly locked per-token amounts.
RECURSIVE directSum(_, _)
directSum(t, K) ==
    IF K = {} THEN 0
    ELSE LET k == CHOOSE x \in K : TRUE
         IN  trackerMappings[t].amount[k] + directSum(t, K \ {k})

\* What the lineage entry (s, p) of t carries.
carried(t, s, p) == (tracked(t, s, p) * emissionsFactor(s)) \div 1000000

RECURSIVE lineageSum(_, _)
lineageSum(t, E) ==
    IF E = {} THEN 0
    ELSE LET e == CHOOSE x \in E : TRUE
         IN  carried(t, e[1], e[2]) + lineageSum(t, E \ {e})

\* C10: where it returns, getTotalEmissions(t) is the sum of t's directly
\* locked per-token amounts plus, for every source tracker s of t's lineage and
\* every product p tracked from s, floor(tracked * emissionsFactor(s) / 1000000).
\* End to end: a tracker A with one type-4 token of amount 100 and one product
\* of amount 50 has emissionsFactor 2000000, and 20 units of that product
\* tracked into B from A carry 40 into getTotalEmissions(B).
C10_TotalEmissions ==
    /\ \A t \in TrackerIds :
          getTotalEmissions(t) # -1 =>
              getTotalEmissions(t) = directSum(t, Tokens) + lineageSum(t, lineageOf(t))
    /\ \A A \in 1..numOfUniqueTrackers, p \in 1..numOfProducts :
          (/\ trackerMappings[A].tokenIds = <<1>>
           /\ trackerMappings[A].amount[1] = 100
           /\ lineageOf(A) = {}
           /\ productsOf(A) = {p}
           /\ productData[p].amount = 50
           /\ trackerData[A].totalProductAmounts = 50) =>
              /\ emissionsFactor(A) = 2000000
              /\ \A B \in (1..numOfUniqueTrackers) \ {A} :
                    tracked(B, A, p) = 20 =>
                        /\ carried(B, A, p) = 40
                        /\ getTotalEmissions(B) =
                               directSum(B, Tokens) + 40
                               + lineageSum(B, lineageOf(B) \ {<<A, p>>})

\* Tracker 1 is the A of the example and tracker 2 a B with 20 units of A's
\* product tracked from A, next to a token locked directly on B.
C10_Witness ==
    /\ numOfUniqueTrackers = 2
    /\ trackerMappings[1].tokenIds = <<1>>
    /\ trackerMappings[1].amount[1] = 100
    /\ productsOf(1) = {1}
    /\ productData[1].amount = 50
    /\ trackerData[1].totalProductAmounts = 50
    /\ tracked(2, 1, 1) = 20
    /\ trackerMappings[2].amount[4] = 57
    /\ getTotalEmissions(2) = 97

\* Caller c owns the tracker of product p.
ownsTrackerOf(c, p) ==
    minted(productData[p].trackerId) /\ owners[productData[p].trackerId] = c

\* What a transfer of q of product p by c draws from the product's available
\* pool: min(q, available) for the owner of the tracker, nothing for others.
drawn(c, p, q) ==
    IF ownsTrackerOf(c, p)
    THEN (IF q < productData[p].available THEN q ELSE productData[p].available)
    ELSE 0

\* The balances of product p after c has sent q of it to `to`.
balancesAfter(c, p, q, to) ==
    [x \in Addresses |->
        productBalance[p][x] - (IF x = c THEN q - drawn(c, p, q) ELSE 0)
                             + (IF x = to THEN q ELSE 0)]

\* The quantities the claims about transfers range over.
AnyQuantities == {0, 10, 40, 60, 100}

\* C11: a successful transferProduct(p, q, to) by c moves exactly q: the
\* available pool gives min(q, available) if c owns p's tracker and nothing
\* otherwise, c's balance gives the rest, the recipient's balance gains q, and
\* nothing else of the products changes.  Example: of a product with amount =
\* available = 100 on an audited tracker the owner can send 40 to X, leaving
\* available 60 and X's balance 40; X can then send 10 to Y, leaving X 30, Y 10
\* and available 60.
C11_TransferMovesExactly ==
    /\ \A c \in Accounts, p \in ProductIds, q \in AnyQuantities, to \in Accounts :
          ~ ENABLED (/\ transferProduct(c, p, q, to)
                     /\ \/ productData' #
                              [productData EXCEPT ![p].available = @ - drawn(c, p, q)]
                        \/ productBalance' #
                              [productBalance EXCEPT ![p] = balancesAfter(c, p, q, to)])
    /\ \A p \in 1..numOfProducts, X \in Accounts, Y \in Accounts :
          LET o == owners[productData[p].trackerId]
          IN  /\ (/\ productData[p].amount = 100 /\ productData[p].available = 100
                  /\ minted(productData[p].trackerId)
                  /\ isAudited(productData[p].trackerId)
                  /\ X # o /\ productBalance[p][X] = 0) =>
                     ENABLED (/\ transferProduct(o, p, 40, X)
                              /\ productData'[p].available = 60
                              /\ productBalance'[p][X] = 40)
              /\ (/\ productData[p].available = 60 /\ productBalance[p][X] = 40
                  /\ minted(productData[p].trackerId)
                  /\ X # o /\ Y # X /\ productBalance[p][Y] = 0) =>
                     ENABLED (/\ transferProduct(X, p, 10, Y)
                              /\ productBalance'[p][X] = 30
                              /\ productBalance'[p][Y] = 10
                              /\ productData'[p].available = 60)

\* The example has run: of product 1 (amount 100) 60 are available, the admin
\* holds 30 and the auditor 10.
C11_Witness ==
    /\ productData[1].amount = 100
    /\ productData[1].available = 60
    /\ productBalance[1][Admin] = 30
    /\ productBalance[1][Auditor] = 10

\* What caller c can draw on for a transfer of product p: its balance, and
\* the available pool if it owns p's tracker.
holding(c, p) ==
    productBalance[p][c] + (IF ownsTrackerOf(c, p) THEN productData[p].available ELSE 0)

\* C12: transferProduct(p, q, to) cannot succeed when the caller's holding
\* (available pool if it owns p's tracker, plus its balance) is at most q, and
\* trackProduct cannot succeed when the caller's balance is at most the
\* amount; equality included, so the exact full holding cannot be moved.
C12_StrictBalanceGuards ==
    \A c \in Accounts, p \in ProductIds, q \in AnyQuantities :
        /\ holding(c, p) <= q =>
              ~ ENABLED (\E to \in Accounts : transferProduct(c, p, q, to))
        /\ productBalance[p][c] <= q =>
              ~ ENABLED (\E t \in TrackerIds, s \in TrackerIds :
                            trackProduct(c, t, s, p, q))

\* The admin holds exactly 40 of product 1 and owns an unaudited tracker other
\* than the product's, into which it could track less; the owner of the
\* product's tracker, audited, holds exactly 60 in the available pool.
C12_Witness ==
    /\ productBalance[1][Admin] = 40
    /\ \E t \in 1..numOfUniqueTrackers :
          /\ owners[t] = Admin /\ ~isAudited(t) /\ productData[1].trackerId # t
    /\ \E o \in Accounts :
          /\ ownsTrackerOf(o, 1)
          /\ isAudited(productData[1].trackerId)
          /\ holding(o, 1) = 60

\* C13: a product's available pool is drawn only by the owner of the
\* product's tracker and only while that tracker is audited: the owner's
\* transferProduct cannot succeed while the tracker is unaudited, and every
\* step that lowers the available pool of a product of a minted tracker is a
\* transferProduct by the tracker's owner while the tracker's auditor is set.
C13_AvailableDrawnByAuditedOwner ==
    /\ [](\A c \in Accounts, p \in ProductIds :
            (ownsTrackerOf(c, p) /\ trackerData[productData[p].trackerId].auditor = Zero) =>
                ~ ENABLED (\E q \in AnyQuantities \cup 0..MaxBalance, to \in Accounts :
                              transferProduct(c, p, q, to)))
    /\ [][\A p \in ProductIds :
            (/\ minted(productData[p].trackerId)
             /\ productData'[p].available < productData[p].available) =>
                /\ trackerData[productData[p].trackerId].auditor # Zero
                /\ \E q \in 1..holding(owners[productData[p].trackerId], p),
                      to \in Accounts :
                      transferProduct(owners[productData[p].trackerId], p, q, to)]_vars

\* C13 as the code has it: the owner's transferProduct cannot succeed while
\* the tracker is unaudited, and a step that lowers the available pool of a
\* product of a minted tracker is either a transferProduct by the tracker's
\* owner while the auditor is set, or a productsUpdate on the unaudited tracker
\* by the product's auditor, which resets available to the new amount.
C13_AvailableDrawnOrReset ==
    /\ [](\A c \in Accounts, p \in ProductIds :
            (ownsTrackerOf(c, p) /\ trackerData[productData[p].trackerId].auditor = Zero) =>
                ~ ENABLED (\E q \in AnyQuantities \cup 0..MaxBalance, to \in Accounts :
                              transferProduct(c, p, q, to)))
    /\ [][\A p \in ProductIds :
            (/\ minted(productData[p].trackerId)
             /\ productData'[p].available < productData[p].available) =>
                \/ /\ trackerData[productData[p].trackerId].auditor # Zero
                   /\ \E q \in 1..holding(owners[productData[p].trackerId], p),
                         to \in Accounts :
                         transferProduct(owners[productData[p].trackerId], p, q, to)
                \/ /\ trackerData[productData[p].trackerId].auditor = Zero
                   /\ productData'[p].available = productData'[p].amount
                   /\ \E a \in Base.productArgs \cup AnyProductArgs :
                         productsUpdate(productData[p].auditor,
                                        productData[p].trackerId, a[1], a[2])]_vars

\* The owner has drawn on the available pool of a product of an audited
\* tracker, and another product sits whole on an unaudited minted tracker,
\* where its owner cannot draw on it and its auditor can reset it.
C13_Witness ==
    /\ \E p \in 1..numOfProducts :
          /\ minted(productData[p].trackerId)
          /\ isAudited(productData[p].trackerId)
          /\ productData[p].available < productData[p].amount
    /\ \E p \in 1..numOfProducts :
          /\ minted(productData[p].trackerId)
          /\ ~isAudited(productData[p].trackerId)
          /\ productData[p].available = productData[p].amount
          /\ productData[p].amount > 1
          /\ isAuditorFor(productData[p].auditor,
                          trackerData[productData[p].trackerId].trackee)

\* Entry k of a token list fails for caller c on tracker t although the list
\* has equal lengths: with the entries before it counted, more of the token is
\* asked for than is available and not locked, or the token is an offset and
\* the amount exceeds what the tracker holds of it.
tokenEntryFails(c, t, tokenIds, tokenAmounts, k) ==
    \/ /\ c # netAddress
       /\ lockedAmount[tokenIds[k]]
            + submitted(SubSeq(tokenIds, 1, k), SubSeq(tokenAmounts, 1, k), tokenIds[k])
          > netAvailable[tokenIds[k]]
    \/ /\ getTokenTypeId(tokenIds[k]) = 2
       /\ tokenAmounts[k] > trackerMappings[t].amount[tokenIds[k]]

\* Entry k of a product list names a registered product that is not the
\* tracker's or was not registered by the caller.
productEntryFails(c, t, productIds, k) ==
    /\ productIds[k] \in 1..numOfProducts
    /\ \/ productData[productIds[k]].trackerId # t
       \/ productData[productIds[k]].auditor # c

\* Lists of two entries, of which the second can fail after the first passed.
TwoTokenArgs ==
    {<<<<1, 1>>, <<1, 1>>>>, <<<<3, 1>>, <<1, 1>>>>, <<<<1, 2>>, <<1, 1>>>>,
     <<<<1, 3>>, <<1, 2>>>>}

TwoProductArgs == {<<<<0, 1>>, <<1, 1>>>>, <<<<0, 2>>, <<1, 1>>>>}

\* C14: a call is all-or-nothing.  A track or trackUpdate in which some
\* token entry fails, and a productsUpdate in which some product entry fails,
\* cannot take a step at all, whatever the entries before it would have done:
\* nothing is locked, no product is created, no tracker id is used and no
\* tracker token minted.  Every step that changes lockedAmount adds the whole
\* of one submitted list, and a tracker id is used exactly when its token is
\* minted.
C14_AllOrNothing ==
    /\ [](\A c \in Accounts :
            /\ \A a \in TwoTokenArgs :
                  /\ \A t \in TrackerIds :
                        (\E k \in 1..Len(a[1]) : tokenEntryFails(c, t, a[1], a[2], k)) =>
                            ~ ENABLED (\E d \in AnyDateArgs :
                                          trackUpdate(c, t, a[1], a[2], d[1], d[2]))
                  /\ (/\ numOfUniqueTrackers < MaxTrackers
                      /\ \E k \in 1..Len(a[1]) :
                            tokenEntryFails(c, numOfUniqueTrackers + 1, a[1], a[2], k)) =>
                         ~ ENABLED (\E io \in Accounts, trackee \in Accounts :
                                       track(c, io, trackee, a[1], a[2], 0, 0))
            /\ \A a \in TwoProductArgs, t \in TrackerIds :
                  (\E k \in 1..Len(a[1]) : productEntryFails(c, t, a[1], k)) =>
                      ~ ENABLED productsUpdate(c, t, a[1], a[2]))
    /\ [][/\ lockedAmount' # lockedAmount =>
                \E a \in TokenCalls.tokenArgs : lockedAmount' = lockedAfter(a[1], a[2])
          /\ \A t \in 1..MaxTrackers :
                (owners[t] = Zero /\ owners'[t] # Zero)
                    <=> (numOfUniqueTrackers = t - 1 /\ numOfUniqueTrackers' = t)]_vars

\* On an unaudited tracker the auditor can lock one more unit of token 1 but
\* not two, so the second entry of <<1, 1>> fails after the first passed; and
\* the auditor can register a new product on an unaudited tracker while
\* product 1 belongs to another tracker, so the second entry of <<0, 1>> fails
\* after the first created a product.
C14_Witness ==
    /\ \E t \in 1..numOfUniqueTrackers :
          /\ minted(t) /\ ~isAudited(t)
          /\ trackUpdatePre(Auditor, t, <<1>>, <<1>>)
          /\ tokenEntryFails(Auditor, t, <<1, 1>>, <<1, 1>>, 2)
          /\ ~tokenEntryFails(Auditor, t, <<1, 1>>, <<1, 1>>, 1)
    /\ \E t \in 1..numOfUniqueTrackers :
          /\ minted(t) /\ ~isAudited(t)
          /\ productsUpdatePre(Auditor, t, <<0>>, <<1>>)
          /\ numOfProducts = 1
          /\ productEntryFails(Auditor, t, <<0, 1>>, 2)

\* Token lists whose two lengths differ.
MismatchedTokenArgs ==
    {<<<<>>, <<1>>>>, <<<<1>>, <<>>>>, <<<<1>>, <<1, 1>>>>, <<<<1, 1>>, <<1>>>>}

\* C15: track cannot succeed when tokenIds and tokenAmounts differ in length,
\* whoever calls it and for whatever recipient and trackee, the case of an
\* empty tokenIds with a non-empty tokenAmounts included.
C15_TrackLengthMismatch ==
    \A c \in Accounts, a \in MismatchedTokenArgs :
        numOfUniqueTrackers < MaxTrackers =>
            ~ ENABLED (\E io \in Accounts, trackee \in Accounts, d \in AnyDateArgs :
                          track(c, io, trackee, a[1], a[2], d[1], d[2]))

\* C16: any caller can create a tracker without tokens, for whatever trackee;
\* a track or trackUpdate that supplies tokens cannot succeed unless the
\* caller is an authorized auditor of the trackee and the trackee holds the
\* industry role.
C16_ShellByAnyoneTokensByAuditor ==
    \A c \in Accounts :
        /\ numOfUniqueTrackers < MaxTrackers =>
              \A trackee \in {Industry, Admin} :
                  ENABLED track(c, c, trackee, <<>>, <<>>, 0, 0)
        /\ \A trackee \in Addresses :
              (/\ numOfUniqueTrackers < MaxTrackers
               /\ ~authorizedAuditor(c, trackee) \/ ~netIsIndustry(trackee)) =>
                  ~ ENABLED (\E io \in Accounts, a \in AnyTokenArgs, d \in AnyDateArgs :
                                /\ Len(a[1]) > 0
                                /\ track(c, io, trackee, a[1], a[2], d[1], d[2]))
        /\ \A t \in TrackerIds :
              (\/ ~authorizedAuditor(c, trackerData[t].trackee)
               \/ ~netIsIndustry(trackerData[t].trackee)) =>
                  ~ ENABLED (\E a \in AnyTokenArgs, d \in AnyDateArgs :
                                /\ Len(a[1]) > 0
                                /\ trackUpdate(c, t, a[1], a[2], d[1], d[2]))

\* A tracker without tokens was created for a trackee that is not an industry
\* and is unaudited, and a second tracker is still to be created; tokens are
\* available to lock.
C16_Witness ==
    /\ numOfUniqueTrackers = 1
    /\ minted(1)
    /\ trackerMappings[1].tokenIds = <<>>
    /\ ~netIsIndustry(trackerData[1].trackee)
    /\ ~isAudited(1)
    /\ lockedAmount[1] < netAvailable[1]

\* C17: tracker ids are sequential from 1.  The tracker tokens minted are those
\* with ids 1..numOfUniqueTrackers, each with one owner, and the trackerId
\* field of each equals its id; every successful track uses the id
\* numOfUniqueTrackers + 1, records it in the trackerId field and leaves that
\* token owned by issuedTo and by nobody else; no other step changes the count,
\* and no token once minted is left without an owner.
C17_SequentialTrackerIds ==
    /\ []({t \in TrackerIds : minted(t)} = 1..numOfUniqueTrackers)
    /\ [](\A t \in 1..numOfUniqueTrackers :
             trackerData[t].trackerId = t /\ owners[t] \in Accounts)
    /\ [](\A c \in {Auditor, Admin}, io \in Accounts, a \in {<<<<>>, <<>>>>, <<<<1>>, <<1>>>>} :
            numOfUniqueTrackers < MaxTrackers =>
                ~ ENABLED (/\ track(c, io, Industry, a[1], a[2], 0, 0)
                           /\ \/ numOfUniqueTrackers' # numOfUniqueTrackers + 1
                              \/ owners'[numOfUniqueTrackers + 1] # io
                              \/ trackerData'[numOfUniqueTrackers + 1].trackerId
                                    # numOfUniqueTrackers + 1
                              \/ \E t \in 1..numOfUniqueTrackers :
                                    owners'[t] # owners[t]))
    /\ [][/\ numOfUniqueTrackers' \in {numOfUniqueTrackers, numOfUniqueTrackers + 1}
          /\ numOfUniqueTrackers' = numOfUniqueTrackers + 1 =>
                /\ owners[numOfUniqueTrackers'] = Zero
                /\ owners'[numOfUniqueTrackers'] # Zero]_vars

\* Two trackers were minted one after the other to the industry account, the
\* first has since been transferred to the admin.
C17_Witness ==
    /\ numOfUniqueTrackers = 2
    /\ owners[1] = Admin
    /\ owners[2] = Industry
    /\ trackerData[2].trackerId = 2

\* C18: trackUpdate, productsUpdate and trackProduct cannot succeed on a
\* tracker id outside 1..numOfUniqueTrackers, the id 0 included, whoever calls
\* and whatever the other arguments.
C18_UnknownTrackerRejected ==
    \A t \in TrackerIds \ (1..numOfUniqueTrackers), c \in Accounts :
        ~ ENABLED (\/ \E a \in AnyTokenArgs, d \in AnyDateArgs :
                         trackUpdate(c, t, a[1], a[2], d[1], d[2])
                   \/ \E a \in AnyProductArgs : productsUpdate(c, t, a[1], a[2])
                   \/ \E s \in TrackerIds, p \in ProductIds, q \in 0..MaxBalance :
                         trackProduct(c, t, s, p, q))

\* C19: audit cannot succeed on a tracker whose auditor is set, nor for a
\* caller that is not an authorized auditor of the tracker's trackee; it is
\* open to an authorized auditor on a minted unaudited tracker.  A tracker's
\* auditor changes only from unset to the caller of a successful audit, or to
\* unset by a successful removeAudit: in between it stays, and an audit on an
\* audited tracker does not replace it.
C19_AuditSetsAuditor ==
    /\ [](\A c \in Accounts, t \in TrackerIds :
            /\ (\/ trackerData[t].auditor # Zero
                \/ ~authorizedAuditor(c, trackerData[t].trackee)) =>
                   ~ ENABLED audit(c, t)
            /\ (/\ minted(t)
                /\ trackerData[t].auditor = Zero
                /\ c \in {Auditor, netAddress}
                /\ authorizedAuditor(c, trackerData[t].trackee)) =>
                   ENABLED audit(c, t))
    /\ [][\A t \in TrackerIds :
            trackerData'[t].auditor # trackerData[t].auditor =>
                \/ /\ trackerData[t].auditor = Zero
                   /\ audit(trackerData'[t].auditor, t)
                \/ /\ trackerData'[t].auditor = Zero
                   /\ \E c \in Accounts : removeAudit(c, t)]_vars

\* The network contract has audited a minted tracker, and the registered
\* auditor, authorized for the same trackee, is there to call audit on it.
C19_Witness ==
    \E t \in 1..numOfUniqueTrackers :
        /\ minted(t)
        /\ trackerData[t].auditor = netAddress
        /\ authorizedAuditor(Auditor, trackerData[t].trackee)

\* C20: every tracker is unaudited immediately after the track call that
\* mints it, whatever calls came before, audit and removeAudit on arbitrary
\* ids included.
C20_MintedUnaudited ==
    [][numOfUniqueTrackers' = numOfUniqueTrackers + 1 =>
          trackerData'[numOfUniqueTrackers'].auditor = Zero]_vars

\* The number of times e occurs in the sequence seq.
RECURSIVE occurrences(_, _)
occurrences(seq, e) ==
    IF seq = <<>> THEN 0
    ELSE (IF Head(seq) = e THEN 1 ELSE 0) + occurrences(Tail(seq), e)

\* The product a productsUpdate entry with productIds[i] = 0 registers for
\* caller c on tracker t with the amount q.
createdProduct(c, t, q) == [trackerId |-> t, auditor |-> c, amount |-> q, available |-> q]

\* C21: a productsUpdate entry with productIds[i] = 0 creates a product with
\* the next product id (the product counter plus one), the target tracker as
\* trackerId, the caller as auditor, amount and available both the amount
\* submitted, and appends the id to the tracker's productIds; two such
\* entries of one call create two products with the next two ids.  The
\* product ids in use are always exactly 1..numOfProducts, each listed once
\* on its tracker.
C21_NewProductSequentialId ==
    /\ {p \in ProductIds : productData[p] # NoProductDetails} = 1..numOfProducts
    /\ \A p \in 1..numOfProducts :
          /\ productData[p].auditor # Zero
          /\ occurrences(trackerMappings[productData[p].trackerId].productIds, p) = 1
          /\ \A t \in TrackerIds \ {productData[p].trackerId} :
                occurrences(trackerMappings[t].productIds, p) = 0
    /\ \A c \in Accounts, t \in TrackerIds :
          /\ numOfProducts < MaxProducts =>
                ~ ENABLED (/\ productsUpdate(c, t, <<0>>, <<3>>)
                           /\ \/ numOfProducts' # numOfProducts + 1
                              \/ productData'[numOfProducts + 1] # createdProduct(c, t, 3)
                              \/ trackerMappings'[t].productIds
                                    # Append(trackerMappings[t].productIds,
                                             numOfProducts + 1)
                              \/ \E p \in 1..numOfProducts :
                                    productData'[p] # productData[p])
          /\ numOfProducts + 2 <= MaxProducts =>
                ~ ENABLED (/\ productsUpdate(c, t, <<0, 0>>, <<1, 2>>)
                           /\ \/ numOfProducts' # numOfProducts + 2
                              \/ productData'[numOfProducts + 1] # createdProduct(c, t, 1)
                              \/ productData'[numOfProducts + 2] # createdProduct(c, t, 2)
                              \/ trackerMappings'[t].productIds
                                    # trackerMappings[t].productIds
                                        \o <<numOfProducts + 1, numOfProducts + 2>>)

\* Two products are registered, on two different minted trackers.
C21_Witness ==
    /\ numOfProducts = 2
    /\ minted(productData[1].trackerId)
    /\ minted(productData[2].trackerId)
    /\ productData[1].trackerId # productData[2].trackerId
    /\ productData[2].amount = 3

\* The amounts an update of a product is tried with.
AnyAmounts == {0, 1, 2, 4}

\* C22: on a minted unaudited tracker t, for a caller that passes the auditor
\* check, a productsUpdate with the one entry (p, q), p a registered product,
\* succeeds exactly when p belongs to t and p's auditor is the caller,
\* whatever the new amount q.
C22_UpdateAcceptedIffOwnProduct ==
    \A t \in 1..numOfUniqueTrackers, c \in Accounts, p \in 1..numOfProducts, q \in AnyAmounts :
        (minted(t) /\ trackerData[t].auditor = Zero
                   /\ authorizedAuditor(c, trackerData[t].trackee)) =>
            (ENABLED productsUpdate(c, t, <<p>>, <<q>>)
                <=> (productData[p].trackerId = t /\ productData[p].auditor = c))

\* C23: in every reachable state every product has 0 <= available <= amount.
C23_AvailableWithinAmount ==
    \A p \in ProductIds :
        /\ 0 <= productData[p].available
        /\ productData[p].available <= productData[p].amount

\* A product was registered, updated to the amount 2, and then drawn down to
\* nothing by the owner of its audited tracker.
C23_Witness ==
    \E p \in 1..numOfProducts :
        /\ productData[p].amount = 2
        /\ productData[p].available = 0
        /\ isAudited(productData[p].trackerId)

\* The tracked amounts under tracker t after q of product p from source s is
\* added.
trackedAfter(t, s, p, q) ==
    [x \in TrackerIds |-> [y \in ProductIds |->
        tracked(t, x, y) + (IF x = s /\ y = p THEN q ELSE 0)]]

\* C24: a successful trackProduct(t, s, p, q) lowers the caller's balance of
\* p by exactly q and raises the tracked amount under t for (s, p) by exactly
\* q.  No other balance changes, no product's amount or available, no
\* lockedAmount, no tracker's token amounts or token ids, no other tracked
\* amount under t and nothing of another tracker's lineage; the trackers'
\* details, owners and counters stay.
C24_TrackProductFrame ==
    \A c \in Accounts, t \in TrackerIds, s \in TrackerIds, p \in ProductIds, q \in 0..2 :
        ~ ENABLED (/\ trackProduct(c, t, s, p, q)
                   /\ \/ productBalance'
                            # [productBalance EXCEPT ![p][c] = @ - q]
                      \/ [x \in TrackerIds |-> [y \in ProductIds |->
                             trackerMappings'[t].productsTracked[x].amount[y]]]
                            # trackedAfter(t, s, p, q)
                      \/ \E u \in TrackerIds \ {t} :
                            trackerMappings'[u] # trackerMappings[u]
                      \/ trackerMappings'[t].amount # trackerMappings[t].amount
                      \/ trackerMappings'[t].tokenIds # trackerMappings[t].tokenIds
                      \/ trackerMappings'[t].idIndex # trackerMappings[t].idIndex
                      \/ trackerMappings'[t].productIds # trackerMappings[t].productIds
                      \/ productData' # productData
                      \/ lockedAmount' # lockedAmount
                      \/ trackerData' # trackerData
                      \/ owners' # owners
                      \/ numOfProducts' # numOfProducts
                      \/ numOfUniqueTrackers' # numOfUniqueTrackers)

\* A product amount is tracked under an unaudited tracker, and the owner of
\* that tracker holds more of the product, of another tracker, to track onto
\* it.
C24_Witness ==
    \E t \in 1..numOfUniqueTrackers, s \in TrackerIds, p \in 1..numOfProducts, c \in Accounts :
        /\ tracked(t, s, p) > 0
        /\ ~isAudited(t)
        /\ owners[t] = c
        /\ productData[p].trackerId # t
        /\ productBalance[p][c] > 1

\* C25: in every reachable state no tracker has itself among its lineage
\* sources: no tracked amount is recorded under t with source t, and t is not
\* in its own trackerIds.
C25_NoSelfLoop ==
    \A t \in TrackerIds :
        /\ \A p \in ProductIds : tracked(t, t, p) = 0
        /\ occurrences(trackerMappings[t].trackerIds, t) = 0

C27_ApproveVerifier ==
    \A c \in Accounts, b \in BOOLEAN :
        /\ \A v \in Accounts :
              (\/ c \notin registeredTracker
               \/ v = c
               \/ (b /\ v \notin {x \in Accounts : netIsAuditor(x)})) =>
                  ~ ENABLED approveVerifier(c, v, b)
        /\ \A v \in {Auditor, netAddress} :
              ~ ENABLED (/\ approveVerifier(c, v, b)
                         /\ \/ isAuditorApproved'[v][c] # b
                            \/ \E x \in Addresses, y \in Addresses :
                                  /\ <<x, y>> # <<v, c>>
                                  /\ isAuditorApproved'[x][y] # isAuditorApproved[x][y]
                            \/ registeredTracker' # registeredTracker
                            \/ approvedAuditorsOnly' # approvedAuditorsOnly
                            \/ trackerData' # trackerData
                            \/ trackerMappings' # trackerMappings
                            \/ productData' # productData
                            \/ productBalance' # productBalance
                            \/ lockedAmount' # lockedAmount
                            \/ owners' # owners)

\* The industry account has approved the auditor for itself while the admin,
\* registered from deployment, has not, and a tracker exists.
C27_Witness ==
    /\ isAuditorApproved[Auditor][Industry]
    /\ ~isAuditorApproved[Auditor][Admin]
    /\ Admin \in registeredTracker
    /\ numOfUniqueTrackers > 0

\* The change of a tracker's per-token amount the classification of the token
\* gives for an entry of the amount a: up for type 4, down for type 2, none
\* for any other type.
classified(tokenId, a) ==
    CASE getTokenTypeId(tokenId) = 4 -> a
      [] getTokenTypeId(tokenId) = 2 -> 0 - a
      [] OTHER -> 0

indexedSet(arr, idx, dom) ==
    /\ \A i \in 1..Len(arr) : arr[i] \in dom /\ idx[arr[i]] = i
    /\ \A e \in dom : idx[e] # 0 => (idx[e] \in 1..Len(arr) /\ arr[idx[e]] = e)
    /\ \A i \in 1..Len(arr), j \in 1..Len(arr) : i # j => arr[i] # arr[j]

\* C29: in every reachable state the token set of every tracker
\* (tokenIds/idIndex), its set of lineage sources (trackerIds/trackerIndex) and
\* every set of tracked products of a source (productIds/productIndex) are
\* consistent with their index mappings.
C29_IndexConsistency ==
    \A t \in TrackerIds :
        /\ indexedSet(trackerMappings[t].tokenIds, trackerMappings[t].idIndex, Tokens)
        /\ indexedSet(trackerMappings[t].trackerIds, trackerMappings[t].trackerIndex,
                      TrackerIds)
        /\ \A s \in TrackerIds :
              indexedSet(trackerMappings[t].productsTracked[s].productIds,
                         trackerMappings[t].productsTracked[s].productIndex,
                         ProductIds)

\* A tracker holds two tokens and has two lineage sources.
C29_Witness ==
    \E t \in 1..numOfUniqueTrackers :
        /\ Len(trackerMappings[t].tokenIds) = 2
        /\ Len(trackerMappings[t].trackerIds) = 2
        /\ \E s \in TrackerIds : Len(trackerMappings[t].productsTracked[s].productIds) = 1

\* The elements of the array arr.
elementsOf(arr) == {arr[i] : i \in 1..Len(arr)}

\* C30: membership matches amounts.  In every reachable state a token is in
\* tracker t's tokenIds exactly when t's per-token amount for it is not zero,
\* a product is in the tracked products of (t, s) exactly when the tracked
\* amount for (t, s, product) is positive, and a source s is in t's trackerIds
\* exactly when the tracked products of (t, s) are not empty.
C30_MembershipMatchesAmounts ==
    \A t \in TrackerIds :
        /\ \A k \in Tokens :
              k \in elementsOf(trackerMappings[t].tokenIds)
                  <=> trackerMappings[t].amount[k] # 0
        /\ \A s \in TrackerIds :
              /\ \A p \in ProductIds :
                    p \in elementsOf(trackerMappings[t].productsTracked[s].productIds)
                        <=> tracked(t, s, p) > 0
              /\ s \in elementsOf(trackerMappings[t].trackerIds)
                    <=> trackerMappings[t].productsTracked[s].productIds # <<>>

\* Token 3, of a type that leaves the amounts alone, and token 4 are locked
\* onto a tracker that lists only token 4; the tracker has a lineage source,
\* and the auditor still holds a product balance.
C30_Witness ==
    \E t \in 1..numOfUniqueTrackers :
        /\ lockedAmount[3] > 0
        /\ trackerMappings[t].tokenIds = <<4>>
        /\ trackerMappings[t].trackerIds # <<>>
        /\ \E p \in 1..numOfProducts : productBalance[p][Auditor] > 0

\* C31: getTotalEmissions(t) and emissionsFactor(t) return for every tracker
\* in every reachable state: the walk through the lineage sources with
\* product amounts never comes back to a tracker it has visited.
C31_ViewsTerminate ==
    \A t \in TrackerIds :
        /\ getTotalEmissions(t) # -1
        /\ emissionsFactor(t) # -1

\* C32: lineage is attributed to the product's own tracker: in every
\* reachable state a positive tracked amount under tracker t with source s and
\* product p has s as the trackerId of product p.
C32_LineageSourceIsProductTracker ==
    \A t \in TrackerIds, s \in TrackerIds, p \in ProductIds :
        tracked(t, s, p) > 0 => productData[p].trackerId = s

\* The sum of the values of the function f over the set S.
RECURSIVE sumOver(_, _)
sumOver(f, S) ==
    IF S = {} THEN 0
    ELSE LET x == CHOOSE y \in S : TRUE
         IN  f[x] + sumOver(f, S \ {x})

\* What is held of product p outside its available amount: the balances of
\* all addresses and the amounts tracked under all trackers from all sources.
heldOf(p) ==
    sumOver(productBalance[p], Addresses)
    + sumOver([e \in TrackerIds \X TrackerIds |-> tracked(e[1], e[2], p)],
              TrackerIds \X TrackerIds)

\* C33: product supply is conserved: in every reachable state, for every
\* product, available plus the balances of all addresses plus the amounts
\* tracked under all trackers equals the product's amount.
C33_ProductSupplyConserved ==
    \A p \in ProductIds : productData[p].available + heldOf(p) = productData[p].amount

\* C34: removeAudit(t) succeeds for every caller that is an authorized auditor
\* of t's trackee, the recorded auditor or not, and leaves t without an auditor
\* and everything else as it was, so that on an unaudited tracker it changes
\* nothing; it cannot succeed for any other caller.
C34_RemoveAuditByAnyAuditor ==
    \A c \in Accounts, t \in TrackerIds :
        IF authorizedAuditor(c, trackerData[t].trackee)
        THEN ENABLED (/\ removeAudit(c, t)
                      /\ trackerData' = [trackerData EXCEPT ![t].auditor = Zero]
                      /\ trackerData[t].auditor = Zero => trackerData' = trackerData
                      /\ UNCHANGED <<numOfUniqueTrackers, numOfProducts,
                                     trackerMappings, productData, owners,
                                     lockedAmount, productBalance, isAuditorApproved,
                                     approvedAuditorsOnly, registeredTracker>>)
        ELSE ~ ENABLED removeAudit(c, t)

\* One minted tracker is audited by the registered auditor while the network
\* contract is authorized for its trackee too, and another minted tracker has
\* been audited and is unaudited again.
C34_Witness ==
    /\ \E t \in 1..numOfUniqueTrackers :
          /\ minted(t)
          /\ trackerData[t].auditor = Auditor
          /\ authorizedAuditor(netAddress, trackerData[t].trackee)
    /\ \E u \in 1..numOfUniqueTrackers :
          /\ minted(u)
          /\ u \in everAudited
          /\ trackerData[u].auditor = Zero

\* C35: the restricted-approval mode is reachable: the calls lead to a state
\* in which approvedAuditorsOnly is set for some trackee.
C35_RestrictedModeReachable ==
    <>(\E trackee \in Addresses : approvedAuditorsOnly[trackee])

\* The tracker and the auditor recorded for product p.
origin(p) == <<productData[p].trackerId, productData[p].auditor>>

inCirculation(p) ==
    \/ \E a \in Addresses : productBalance[p][a] > 0
    \/ \E t \in TrackerIds, s \in TrackerIds : tracked(t, s, p) > 0

\* C37: products become transferable only through audit: a product with a
\* positive balance of any account, or a positive tracked amount in any
\* lineage record, is a registered product whose tracker has been audited;
\* and the step that first puts some of a product into a balance or a
\* lineage record is taken while the product's tracker is minted and audited.
C37_TransferableOnlyThroughAudit ==
    /\ [](\A p \in ProductIds :
             inCirculation(p) => /\ p \in 1..numOfProducts
                                 /\ productData[p].trackerId \in everAudited)
    /\ [][\A p \in ProductIds :
             ~ inCirculation(p) /\ inCirculation(p)' =>
                 /\ minted(productData[p].trackerId)
                 /\ trackerData[productData[p].trackerId].auditor # Zero]_vars

\* Part of a product is in an account's balance and part in a lineage
\* record, and the audit of the product's tracker has been removed since.
C37_Witness ==
    \E p \in 1..numOfProducts :
        /\ \E a \in Accounts : productBalance[p][a] > 0
        /\ \E t \in TrackerIds, s \in TrackerIds : tracked(t, s, p) > 0
        /\ trackerData[productData[p].trackerId].auditor = Zero

\* The figures the views report for tracker t.
certified(t) == <<getTotalEmissions(t), emissionsFactor(t)>>

\* C38: the certified figures of an audited tracker are stable: over every
\* step that leaves tracker t minted and audited, getTotalEmissions(t) and
\* emissionsFactor(t) keep their values (both views returning before and
\* after), whatever tracker the step acts on.
C38_CertifiedFiguresStable ==
    [][\A t \in 1..numOfUniqueTrackers :
          /\ minted(t)
          /\ trackerData[t].auditor # Zero
          /\ trackerData'[t].auditor # Zero
          /\ -1 \notin {certified(t)[1], certified(t)[2]}
          /\ -1 \notin {certified(t)'[1], certified(t)'[2]}
          => certified(t)' = certified(t)]_vars

\* The accounts that sign unit hashes.
Signers == {Auditor, Industry}

\* C39: verifyUnitSignature(t, p, unit, unitAmount, sig) fails unless tracker
\* t is minted and audited; on a minted audited tracker, for a signature
\* made by signer s over the message (t2, p2, unit2, unitAmount2) of this
\* contract, it returns true exactly when the message is (t, p, unit,
\* unitAmount) and s is the recorded auditor of product p.
C39_VerifyUnitSignature ==
    \A t \in TrackerIds, p \in ProductIds, unit \in Texts, unitAmount \in Texts :
        \A s \in Signers, t2 \in TrackerIds, p2 \in ProductIds,
           unit2 \in Texts, unitAmount2 \in Texts :
            LET result == verifyUnitSignature(t, p, unit, unitAmount,
                              signatureOf(s, t2, p2, unit2, unitAmount2))
            IN  IF minted(t) /\ trackerData[t].auditor # Zero
                THEN /\ result.ok
                     /\ result.value = (/\ <<t2, p2, unit2, unitAmount2>>
                                            = <<t, p, unit, unitAmount>>
                                        /\ s = productData[p].auditor)
                ELSE ~ result.ok

\* C40: the product set of every tracker is a consistent indexed set: the
\* product at position i of productIds (counted from 1) has productIdIndex
\* i, belongs to the tracker, and occurs in the array once.
C40_ProductSetIndexed ==
    \A t \in TrackerIds :
        LET tm == trackerMappings[t]
        IN  \A i \in 1..Len(tm.productIds) :
                /\ tm.productIdIndex[tm.productIds[i]] = i
                /\ productData[tm.productIds[i]].trackerId = t
                /\ occurrences(tm.productIds, tm.productIds[i]) = 1

====
